---- MODULE Spec2Model ----
(***************************************************************************)
(* Model of sveltekit-inngest's realtime bus endpoint                      *)
(* (src/lib/server/createRealtimeEndpoint.ts): one POST request handled by *)
(* the RequestHandler returned by createRealtimeEndpoint, and the stream   *)
(* pump that `produce` starts once the request has been authorized.        *)
(*                                                                         *)
(* Every `await` of the handler is a point where the task is suspended;    *)
(* the model has one action per resumption.  While the pump is suspended   *)
(* the transport may run the cleanup returned to `produce` (the client     *)
(* went away) and the liveness timer may fire.                             *)
(***************************************************************************)
EXTENDS Integers, Sequences, FiniteSets, TLC

\* ------------------------------------------------------------------ bounds
\* Chunks the upstream reader hands to the pump on one connection.
MaxReads == 2
\* Liveness-timer callbacks that run on one connection.
MaxTicks == 1
\* Entries of the channel registry.
MaxRegistry == 2

\* ------------------------------------------------------- program constants
DefaultIntervalMs == 15000

\* --------------------------------------------------------------- alphabets
\* Topic names: the two topics of the demo channel and one that no channel has.
AllTopics == {"message", "admin-message", "bogus"}

\* Object.keys(resolvedChannel.topics) of a resolved channel, by channel name.
TopicsOf(name) ==
  IF name = "demo" THEN {"message", "admin-message"} ELSE {"message"}

\* Optional booleans of the options objects (`x?: boolean`).
Tri == {"unset", "true", "false"}

\* `a ?? b` on optional booleans.
Coalesce(a, b) == IF a = "unset" THEN b ELSE a

\* Values a thrown exception can have: an Error with a message, or anything else.
Thrown == {"Error:boom", "non-Error"}

\* formatError: the message of an Error, a fixed text for every other value.
formatError(error) ==
  IF error = "Error:boom" THEN "boom" ELSE "Unknown realtime error"

\* What `authorize` can hand back (it is user code: the declared type is
\* boolean | {allowedTopics?: T[]}, the runtime value is unconstrained).
AuthorizationResults ==
  { [kind |-> k, allowedTopics |-> {}, error |-> ""] :
      k \in {"true", "false", "undefined", "null", "object"} }
  \cup { [kind |-> "allowed", allowedTopics |-> a, error |-> ""] :
           a \in SUBSET {"message", "admin-message"} }

\* No result yet, and the call that threw `error` instead of returning.
NoResult == [kind |-> "none", allowedTopics |-> {}, error |-> ""]
ThrewResult(error) == [kind |-> "throws", allowedTopics |-> {}, error |-> error]

\* typeof result === "object"  (null included, as in JavaScript)
IsObject(result) == result.kind \in {"null", "object", "allowed"}

\* filterAllowedTopics(requested, allowed): requested when `allowed` is
\* missing, else the requested topics that `allowed` holds.
filterAllowedTopicsNoIntersect(requested, result) ==
  IF result.kind = "allowed" THEN result.allowedTopics ELSE requested

filterAllowedTopics(requested, result) ==
  IF result.kind = "allowed" THEN requested \cap result.allowedTopics
  ELSE requested

\* What the onFailure hook can do when awaited.
HookResults == {"void", "message", "nonString", "array", "throws"}

OverrideMessage == "override"

\* resolveFailureMessage once the hook has settled with `hook`.
ResolvedMessageAnyObject(message, hook) ==
  IF hook \in {"message", "array"} THEN OverrideMessage ELSE message

ResolvedMessage(message, hook) ==
  IF hook = "message" THEN OverrideMessage ELSE message

\* Chunks of the upstream reader: null, or an envelope whose `topic` field is
\* a string or is missing.
NullChunk == [null |-> TRUE, topic |-> "<none>"]
Envelope(t) == [null |-> FALSE, topic |-> t]
Chunks == {NullChunk} \cup {Envelope(t) : t \in AllTopics \cup {"<none>"}}

\* getMessageTopic: the topic when it is a string, else null ("<none>").
getMessageTopic(value) == value.topic

\* ---------------------------------------------------------- configuration
\* One registry entry.  `name` is the name its channel resolves to; `throws`
\* says that resolving its params or factory throws.
Entry(key, name, throws, reauth, hasReauthorize) ==
  [registryKey |-> key, name |-> name, throws |-> throws,
   reauthorizeOnEachMessage |-> reauth, reauthorize |-> hasReauthorize]

HealthCheckOptions ==
  { [enabled |-> "unset", hasInterval |-> FALSE, intervalMs |-> 0],
    [enabled |-> "false", hasInterval |-> FALSE, intervalMs |-> 0],
    [enabled |-> "true", hasInterval |-> TRUE, intervalMs |-> 0] }

\* healthCheck?.enabled ?? true
healthCheckEnabled(hc) == Coalesce(hc.enabled, "true") = "true"

\* healthCheck?.intervalMs ?? 15_000
healthCheckIntervalMs(hc) ==
  IF hc.hasInterval THEN hc.intervalMs ELSE DefaultIntervalMs

VARIABLES
  channels,                  \* the registry, in Object.entries order
  reauthorizeOnEachMessage,  \* endpoint-wide default
  healthCheck,               \* healthCheck options
  hasOnFailure,              \* an onFailure hook is configured
  pc,                        \* where the request / pump task is
  payload,                   \* parsed request body
  channelMatches,            \* registry keys whose channel matched
  requestedTopics,
  authorizeCalls,            \* topic lists `authorize` was invoked with
  reauthorizeCalls,          \* topic lists `reauthorize` was invoked with
  authorizationResult,       \* outcome of the request-time authorize call
  authorizedTopics,
  shouldReauthorizeOnEachMessage,
  failures,                  \* failure contexts given to resolveFailureMessage
  response,                  \* what the handler returned
  onFailureResult,           \* how the awaited onFailure hook settled
  conn,                      \* closed, heartbeat, reader, lock of the stream
  emitLog,                   \* every emit(...) call, in order
  tokenRequests,             \* topic lists getSubscriptionToken was called with
  value,                     \* chunk the read loop is handling
  shouldContinueStream,      \* what reauthorize returned for `value`
  messageAuthorizationResult, \* what authorize returned for `value`
  reads,                     \* chunks read so far
  upstream,                  \* chunks reader.read() resolved with, in order
  ticks                      \* liveness ticks so far

\* The RealtimeManager component (client).
VARIABLES
  lifecycle,                 \* unmounted, mounted, failed, destroyed
  endpoint,                  \* prop
  subscriptions,             \* prop: the subscription descriptors
  activeConnections,         \* channel id -> managed connection
  channelsStore,             \* the published `channels` store
  connections,               \* every connection created, by context id
  applies,                   \* applySubscriptions runs since the mount
  lastApply                  \* how the last applySubscriptions run went

\* One managed connection of the component (createConnection).
VARIABLES
  onFailure,                 \* prop: a failure callback is given
  lastFailureFingerprint,
  health,                    \* the connection's health store
  transportEvents,           \* what the transport delivered, in order
  failureCalls               \* failures handed to the onFailure callback

\* One getRealtimeBusTopicJson store of a page (client hook).
VARIABLES
  busTopic,                  \* the `topic` argument
  mapOption,                 \* options.map is given
  parsedMessages,            \* value of select("message").json(...)
  previous,                  \* the closure variable of the derived store
  topicJson,                 \* value of the returned derived store
  sseMessages                \* `message` events delivered, in order

serverVars ==
  <<channels, reauthorizeOnEachMessage, healthCheck, hasOnFailure, pc, payload,
    channelMatches, requestedTopics, authorizeCalls, reauthorizeCalls,
    authorizationResult, authorizedTopics, shouldReauthorizeOnEachMessage,
    failures, response, onFailureResult, conn, emitLog, tokenRequests, value,
    shouldContinueStream, messageAuthorizationResult, reads, upstream,
    ticks>>

managerVars ==
  <<lifecycle, endpoint, subscriptions, activeConnections, channelsStore,
    connections, applies, lastApply>>

connectionVars ==
  <<onFailure, lastFailureFingerprint, health, transportEvents, failureCalls>>

topicVars ==
  <<busTopic, mapOption, parsedMessages, previous, topicJson, sseMessages>>

clientVars == <<managerVars, connectionVars, topicVars>>

vars == <<serverVars, clientVars>>

\* What the pump has taken from the upstream reader.
readState == <<reads, upstream>>

\* Variables scoped to one iteration of the read loop.
iteration == <<value, shouldContinueStream, messageAuthorizationResult>>

config == <<channels, reauthorizeOnEachMessage, healthCheck, hasOnFailure>>

\* ------------------------------------------------------------ request data
\* parseRequestPayload: null for a body that is no JSON object, else the
\* channel ("" when it is no string), the string topics and the params.
InvalidBody == [valid |-> FALSE, channel |-> "", topics |-> {}]

Payloads ==
  {InvalidBody}
  \cup { [valid |-> TRUE, channel |-> c, topics |-> t] :
           c \in {"", "demo", "other", "ghost"},
           t \in { {}, {"message"}, {"message", "bogus"} } }

NoResponse ==
  [kind |-> "none", status |-> 0, error |-> "",
   matchingRegistryKeys |-> <<>>, invalidTopics |-> {}]

JsonError(hook, status, message, keys, invalid) ==
  [kind |-> IF hook THEN "pending" ELSE "json", status |-> status,
   error |-> message, matchingRegistryKeys |-> keys, invalidTopics |-> invalid]

Failure(stage, status, message, topics) ==
  [stage |-> stage, status |-> status, message |-> message, topics |-> topics]

\* The registry scan: entries are resolved in order; the first one whose
\* resolution throws ends the scan; entries whose resolved name equals the
\* requested channel are collected.
RECURSIVE ScanFrom(_, _, _, _)
ScanFrom(registry, i, requested, matches) ==
  IF i > Len(registry) THEN [threw |-> FALSE, matches |-> matches]
  ELSE IF registry[i].throws THEN [threw |-> TRUE, matches |-> matches]
  ELSE ScanFrom(registry, i + 1, requested,
                IF registry[i].name = requested
                THEN Append(matches, registry[i]) ELSE matches)

ScanFirstMatchOnly(registry, requested) ==
  LET all == ScanFrom(registry, 1, requested, <<>>)
  IN  [all EXCEPT !.matches = IF Len(@) > 1 THEN <<@[1]>> ELSE @]

RECURSIVE ScanPastThrows(_, _, _, _)
ScanPastThrows(registry, i, requested, matches) ==
  IF i > Len(registry) THEN [threw |-> FALSE, matches |-> matches]
  ELSE ScanPastThrows(registry, i + 1, requested,
                      IF ~registry[i].throws /\ registry[i].name = requested
                      THEN Append(matches, registry[i]) ELSE matches)

ScanIgnoresThrows(registry, requested) ==
  ScanPastThrows(registry, 1, requested, <<>>)

Scan(registry, requested) == ScanFrom(registry, 1, requested, <<>>)

RegistryKeys(matches) == [i \in 1..Len(matches) |-> matches[i].registryKey]

\* payload.topics when it holds a topic, else every topic of the channel.
RequestedTopicsAlwaysAll(topics, available) == available

RequestedTopics(topics, available) == IF topics # {} THEN topics ELSE available

\* ----------------------------------------------------------- stream helpers
NewConnection ==
  [closed |-> FALSE, heartbeat |-> "none", reader |-> FALSE,
   cancelCalls |-> 0, lockReleases |-> 0]

\* stop(): the shared shutdown path.
stopUnguarded(c) ==
  [c EXCEPT !.closed = TRUE,
            !.heartbeat = IF @ = "active" THEN "cleared" ELSE @,
            !.cancelCalls = IF c.reader THEN @ + 1 ELSE @,
            !.lockReleases = @ + 1]

stopKeepsLock(c) ==
  IF c.closed THEN c
  ELSE [c EXCEPT !.closed = TRUE,
                 !.heartbeat = IF @ = "active" THEN "cleared" ELSE @,
                 !.cancelCalls = IF c.reader THEN @ + 1 ELSE @]

stopKeepsHeartbeat(c) ==
  IF c.closed THEN c
  ELSE [c EXCEPT !.closed = TRUE,
                 !.cancelCalls = IF c.reader THEN @ + 1 ELSE @,
                 !.lockReleases = @ + 1]

stop(c) ==
  IF c.closed THEN c
  ELSE [c EXCEPT !.closed = TRUE,
                 !.heartbeat = IF @ = "active" THEN "cleared" ELSE @,
                 !.cancelCalls = IF c.reader THEN @ + 1 ELSE @,
                 !.lockReleases = @ + 1]

\* emit(...) of the push transport: it reports an error once the connection
\* lock has been released, and may report one at any time before.
EmitOutcomes(c) == IF c.closed THEN {FALSE} ELSE BOOLEAN

EmitEntry(event, data, detail, ok, c) ==
  [event |-> event, data |-> data, detail |-> detail, ok |-> ok,
   closed |-> c.closed]

\* emitHealth: stop() when emit reported an error.
emitHealthIgnoresError(c, ok) == c

emitHealth(c, ok) == IF ok THEN c ELSE stop(c)

\* ---------------------------------------------------------- initial states
\* Registries of the stream specification: the single entry `demo`, with or
\* without the per-channel reauthorization switch and the reauthorize callback
\* (a callback is given where the switch is off: it is never consulted).
StreamRegistries ==
  { <<Entry("demo", "demo", FALSE, r, h)>> :
      r \in {"unset", "true"}, h \in BOOLEAN }
    \ { <<Entry("demo", "demo", FALSE, "unset", FALSE)>> }

\* The component before it is instantiated: no connection, `channels`
\* holding {}.
EmptyMap == [id \in {} |-> id]

ManagerIdle ==
  /\ lifecycle = "unmounted"
  /\ endpoint = "/api/events"
  /\ subscriptions = <<>>
  /\ activeConnections = EmptyMap
  /\ channelsStore = EmptyMap
  /\ connections = <<>>
  /\ applies = 0
  /\ lastApply = [threw |-> FALSE, sameProps |-> FALSE, ops |-> <<>>]

\* A connection as createConnection leaves it: health connecting, no
\* failure fingerprint.
NoFingerprint == [message |-> "null", status |-> "null", statusText |-> "null",
                  set |-> FALSE]

HealthPayload(ok, status, detail) ==
  [ok |-> ok, status |-> status, detail |-> detail]

\* No getRealtimeBusTopicJson store in use.
NullMessage == [topic |-> "<null>", data |-> "<null>"]

TopicIdle ==
  /\ busTopic = "message"
  /\ mapOption = FALSE
  /\ parsedMessages = NullMessage
  /\ previous = NullMessage
  /\ topicJson = NullMessage
  /\ sseMessages = <<>>

ConnectionIdle ==
  /\ onFailure = FALSE
  /\ lastFailureFingerprint = NoFingerprint
  /\ health = HealthPayload(TRUE, "connecting", "undefined")
  /\ transportEvents = <<>>
  /\ failureCalls = <<>>

InitRequest ==
  /\ pc = "idle"
  /\ payload = InvalidBody
  /\ channelMatches = <<>>
  /\ requestedTopics = {}
  /\ authorizeCalls = <<>>
  /\ reauthorizeCalls = <<>>
  /\ authorizationResult = NoResult
  /\ authorizedTopics = {}
  /\ shouldReauthorizeOnEachMessage = FALSE
  /\ failures = <<>>
  /\ response = NoResponse
  /\ onFailureResult = "none"
  /\ conn = NewConnection
  /\ emitLog = <<>>
  /\ tokenRequests = <<>>
  /\ value = NullChunk
  /\ shouldContinueStream = "unset"
  /\ messageAuthorizationResult = NoResult
  /\ reads = 0
  /\ upstream = <<>>
  /\ ticks = 0

Init ==
  /\ channels \in StreamRegistries
  /\ reauthorizeOnEachMessage = "unset"
  /\ healthCheck \in HealthCheckOptions
  /\ hasOnFailure \in BOOLEAN
  /\ InitRequest
  /\ ManagerIdle
  /\ ConnectionIdle
  /\ TopicIdle

\* ------------------------------------------------------------ request phase
requestVars ==
  <<payload, channelMatches, requestedTopics, authorizeCalls,
    authorizationResult, authorizedTopics, shouldReauthorizeOnEachMessage>>

streamVars ==
  <<conn, emitLog, tokenRequests, iteration, readState, ticks, reauthorizeCalls>>

\* failRequest: the failure goes through resolveFailureMessage, which awaits
\* the onFailure hook when one is configured, and becomes a JSON error.
failRequest(status, stage, message, topics, keys, invalid) ==
  /\ failures' = Append(failures, Failure(stage, status, message, topics))
  /\ response' = JsonError(hasOnFailure, status, message, keys, invalid)
  /\ pc' = IF hasOnFailure THEN "failRequest" ELSE "responded"

\* The handler up to its first call of `authorize`: body parse, channel
\* presence, registry scan, topic validation.
Request(p) ==
  /\ pc = "idle"
  /\ payload' = p
  /\ UNCHANGED <<config, clientVars, onFailureResult, streamVars,
                 authorizationResult, authorizedTopics,
                 shouldReauthorizeOnEachMessage>>
  /\ IF ~p.valid THEN
       /\ failRequest(400, "request-validation", "Invalid request body",
                      {}, <<>>, {})
       /\ UNCHANGED <<channelMatches, requestedTopics, authorizeCalls>>
     ELSE IF p.channel = "" THEN
       /\ failRequest(400, "request-validation", "Missing channel",
                      {}, <<>>, {})
       /\ UNCHANGED <<channelMatches, requestedTopics, authorizeCalls>>
     ELSE
       LET scan == Scan(channels, p.channel)
           available == TopicsOf(scan.matches[1].name)
           requested == RequestedTopics(p.topics, available)
           invalid == requested \ available
       IN
       /\ channelMatches' = scan.matches
       /\ IF scan.threw THEN
            /\ \E error \in Thrown :
                 failRequest(500, "channel-resolution", formatError(error),
                             {}, <<>>, {})
            /\ UNCHANGED <<requestedTopics, authorizeCalls>>
          ELSE IF Len(scan.matches) = 0 THEN
            /\ failRequest(400, "channel-resolution",
                           "Requested channel is not available", {}, <<>>, {})
            /\ UNCHANGED <<requestedTopics, authorizeCalls>>
          ELSE IF Len(scan.matches) > 1 THEN
            /\ failRequest(500, "channel-resolution",
                           "Realtime channel registry is ambiguous", {},
                           RegistryKeys(scan.matches), {})
            /\ UNCHANGED <<requestedTopics, authorizeCalls>>
          ELSE
            /\ requestedTopics' = requested
            /\ IF invalid # {} THEN
                 /\ failRequest(400, "topic-validation",
                                "Requested topics are not available",
                                requested, <<>>, invalid)
                 /\ UNCHANGED authorizeCalls
               ELSE
                 /\ authorizeCalls' = Append(authorizeCalls, requested)
                 /\ pc' = "authorize"
                 /\ UNCHANGED <<failures, response>>

\* The onFailure hook of a request-time failure settles: the JSON error is
\* returned with the resolved message.
FailRequestResolves(hook) ==
  /\ pc = "failRequest"
  /\ response' =
       [response EXCEPT !.kind = "json",
                        !.error = ResolvedMessage(@, hook)]
  /\ onFailureResult' = hook
  /\ pc' = "responded"
  /\ UNCHANGED <<config, clientVars, requestVars, streamVars, failures>>

\* channelConfig.reauthorizeOnEachMessage ?? reauthorizeOnEachMessage ?? false
ShouldReauthorizeGlobalFirst(channelConfig, global) ==
  Coalesce(Coalesce(global, channelConfig.reauthorizeOnEachMessage), "false")
    = "true"

ShouldReauthorize(channelConfig, global) ==
  Coalesce(Coalesce(channelConfig.reauthorizeOnEachMessage, global), "false")
    = "true"

\* What follows a request-time `authorize` that returned `result`: the
\* topics the stream is opened for; none when the request is denied.
AuthorizedTopicsIgnoresAllowed(requested, result) ==
  IF result.kind = "false" THEN {} ELSE requested

AuthorizedTopics(requested, result) ==
  IF result.kind = "false" THEN {}
  ELSE IF IsObject(result) THEN filterAllowedTopics(requested, result)
  ELSE requested

\* The request-time `authorize` call throws.
AuthorizeThrows(error) ==
  /\ pc = "authorize"
  /\ authorizationResult' = ThrewResult(error)
  /\ failRequest(403, "authorization", formatError(error), requestedTopics,
                 <<>>, {})
  /\ UNCHANGED <<config, clientVars, onFailureResult, streamVars, payload,
                 channelMatches, requestedTopics, authorizeCalls,
                 authorizedTopics, shouldReauthorizeOnEachMessage>>

\* The request-time `authorize` call returns.
AuthorizeReturns(result) ==
  /\ pc = "authorize"
  /\ authorizationResult' = result
  /\ UNCHANGED <<config, clientVars, onFailureResult, streamVars, payload,
                 channelMatches, requestedTopics, authorizeCalls>>
  /\ IF result.kind = "null" THEN
       \* `null.allowedTopics` raises a TypeError outside every try block:
       \* the handler rejects and no stream is produced.
       /\ response' = [NoResponse EXCEPT !.kind = "crash", !.status = 500]
       /\ pc' = "responded"
       /\ UNCHANGED <<failures, authorizedTopics,
                      shouldReauthorizeOnEachMessage>>
     ELSE
       LET authorized == AuthorizedTopics(requestedTopics, result)
       IN
       IF authorized = {} THEN
         /\ failRequest(403, "authorization", "Forbidden", requestedTopics,
                        <<>>, {})
         /\ UNCHANGED <<authorizedTopics, shouldReauthorizeOnEachMessage>>
       ELSE
         /\ authorizedTopics' = authorized
         /\ shouldReauthorizeOnEachMessage' =
              ShouldReauthorize(channelMatches[1], reauthorizeOnEachMessage)
         /\ response' = [NoResponse EXCEPT !.kind = "stream", !.status = 200]
         /\ pc' = "produce"
         /\ UNCHANGED failures

\* --------------------------------------------------------------- the pump
requestDone ==
  <<payload, channelMatches, requestedTopics, authorizationResult,
    authorizedTopics, shouldReauthorizeOnEachMessage, response>>

\* emitDegraded(detail) followed by the `finally` of the pump: the degraded
\* health event is handed to emit, then stop() runs and the task ends.
finishWithoutDegraded(detail) ==
  /\ conn' = stop(conn)
  /\ pc' = "done"
  /\ UNCHANGED emitLog

\* emitDegraded with the `finally` of the pump left out: the connection stays
\* open after the degraded event.
emitDegradedKeepsOpen(detail) ==
  \E ok \in EmitOutcomes(conn) :
    /\ emitLog' = Append(emitLog, EmitEntry("health", "degraded", detail, ok, conn))
    /\ conn' = emitHealth(conn, ok)
    /\ pc' = "done"

emitDegradedThenFinish(detail) ==
  \E ok \in EmitOutcomes(conn) :
    /\ emitLog' = Append(emitLog, EmitEntry("health", "degraded", detail, ok, conn))
    /\ conn' = stop(emitHealth(conn, ok))
    /\ pc' = "done"

\* emitDegradedFailure: resolveFailureMessage (awaiting the onFailure hook
\* when there is one), then emitDegraded; every caller then leaves the loop.
emitDegradedFailure(stage, message, topics) ==
  /\ failures' = Append(failures, Failure(stage, 0, message, topics))
  /\ IF hasOnFailure
     THEN pc' = "onFailure" /\ UNCHANGED <<conn, emitLog>>
     ELSE emitDegradedThenFinish(message)

\* The onFailure hook of a stream-time failure settles.
OnFailureReturns(hook) ==
  /\ pc = "onFailure"
  /\ onFailureResult' = hook
  /\ emitDegradedThenFinish(
       ResolvedMessage(failures[Len(failures)].message, hook))
  /\ UNCHANGED <<config, clientVars, requestDone, failures, authorizeCalls,
                 reauthorizeCalls, tokenRequests, iteration, readState, ticks>>

\* produce() asking for the token whatever emit reported for connecting.
PumpStartAlwaysSubscribes ==
  /\ pc = "produce"
  /\ \E ok \in EmitOutcomes(conn) :
       /\ emitLog' = Append(emitLog, EmitEntry("health", "connecting", "", ok, conn))
       /\ conn' = emitHealth(conn, ok)
       /\ tokenRequests' = Append(tokenRequests, authorizedTopics)
       /\ pc' = "token"
  /\ UNCHANGED <<config, clientVars, onFailureResult, requestDone, failures,
                 authorizeCalls, reauthorizeCalls, iteration, readState, ticks>>

\* produce() starts the pump: health=connecting, then the token request.
PumpStart ==
  /\ pc = "produce"
  /\ \E ok \in EmitOutcomes(conn) :
       /\ emitLog' = Append(emitLog, EmitEntry("health", "connecting", "", ok, conn))
       /\ conn' = emitHealth(conn, ok)
       /\ IF ok
          THEN /\ tokenRequests' = Append(tokenRequests, authorizedTopics)
               /\ pc' = "token"
          ELSE /\ pc' = "done"
               /\ UNCHANGED tokenRequests
  /\ UNCHANGED <<config, clientVars, onFailureResult, requestDone, failures,
                 authorizeCalls, reauthorizeCalls, iteration, readState, ticks>>

\* getSubscriptionToken resolves: subscribe(...) is called.
TokenReturns ==
  /\ pc = "token"
  /\ pc' = "subscribe"
  /\ UNCHANGED <<config, clientVars, onFailureResult, requestDone, failures,
                 authorizeCalls, streamVars>>

\* getSubscriptionToken or subscribe rejects: the catch block.
AcquireThrows(error) ==
  /\ pc \in {"token", "subscribe"}
  /\ emitDegradedFailure("stream", formatError(error), authorizedTopics)
  /\ UNCHANGED <<config, clientVars, onFailureResult, requestDone,
                 authorizeCalls, reauthorizeCalls, tokenRequests, iteration,
                 readState, ticks>>

\* if (healthCheckEnabled && healthCheckIntervalMs > 0) setInterval(...)
HeartbeatAlways(hc) == "active"

Heartbeat(hc) ==
  IF healthCheckEnabled(hc) /\ healthCheckIntervalMs(hc) > 0
  THEN "active" ELSE "none"

\* subscribe resolves: the reader is taken, health=connected is emitted, the
\* liveness timer is set and the read loop is entered.
SubscribeReturns ==
  /\ pc = "subscribe"
  /\ \E ok \in EmitOutcomes(conn) :
       LET withReader == [conn EXCEPT !.reader = TRUE]
       IN
       /\ emitLog' = Append(emitLog, EmitEntry("health", "connected", "", ok, conn))
       /\ IF ok
          THEN /\ conn' = [withReader EXCEPT !.heartbeat = Heartbeat(healthCheck)]
               /\ pc' = "read"
          ELSE /\ conn' = stop(emitHealth(withReader, ok))
               /\ pc' = "done"
  /\ UNCHANGED <<config, clientVars, onFailureResult, requestDone, failures,
                 authorizeCalls, reauthorizeCalls, tokenRequests, iteration,
                 readState, ticks>>

\* emit("message", ...) and the loop condition that follows it.
forwardSkips(chunk) == pc' = "read" /\ UNCHANGED <<conn, emitLog>>

forward(chunk) ==
  \E ok \in EmitOutcomes(conn) :
    /\ emitLog' = Append(emitLog, EmitEntry("message", chunk.topic, "", ok, conn))
    /\ IF ok
       THEN pc' = "read" /\ UNCHANGED conn
       ELSE pc' = "done" /\ conn' = stop(conn)

\* The three topic checks of per-message reauthorization, in order: the
\* message that fails one, "" when it passes all three.
TopicCheckNoSessionCheck(topic, available, authorized) ==
  IF topic = "<none>" THEN "Realtime message is missing a valid topic"
  ELSE IF topic \notin available
    THEN "Realtime message topic is not configured for channel: " \o topic
  ELSE ""

TopicCheckSessionFirst(topic, available, authorized) ==
  IF topic = "<none>" THEN "Realtime message is missing a valid topic"
  ELSE IF topic \notin authorized
    THEN "Realtime message topic is not authorized for this connection: "
           \o topic
  ELSE IF topic \notin available
    THEN "Realtime message topic is not configured for channel: " \o topic
  ELSE ""

TopicCheck(topic, available, authorized) ==
  IF topic = "<none>" THEN "Realtime message is missing a valid topic"
  ELSE IF topic \notin available
    THEN "Realtime message topic is not configured for channel: " \o topic
  ELSE IF topic \notin authorized
    THEN "Realtime message topic is not authorized for this connection: "
           \o topic
  ELSE ""

\* reader.read() resolves with a chunk.
ReadReturns(chunk) ==
  /\ pc = "read"
  /\ reads < MaxReads
  /\ reads' = reads + 1
  /\ upstream' = Append(upstream, chunk)
  /\ value' = IF conn.closed THEN NullChunk ELSE chunk
  /\ shouldContinueStream' = "unset"
  /\ messageAuthorizationResult' = NoResult
  /\ UNCHANGED <<config, clientVars, onFailureResult, requestDone,
                 tokenRequests, ticks>>
  /\ IF conn.closed THEN
       \* if (done || closed) break; finally stop()
       /\ pc' = "done"
       /\ conn' = stop(conn)
       /\ UNCHANGED <<emitLog, failures, authorizeCalls, reauthorizeCalls>>
     ELSE IF chunk.null THEN
       \* if (value == null) continue;
       /\ pc' = "read"
       /\ UNCHANGED <<conn, emitLog, failures, authorizeCalls,
                      reauthorizeCalls>>
     ELSE IF ~shouldReauthorizeOnEachMessage THEN
       /\ forward(chunk)
       /\ UNCHANGED <<failures, authorizeCalls, reauthorizeCalls>>
     ELSE
       LET messageTopic == getMessageTopic(chunk)
           check == TopicCheck(messageTopic, TopicsOf(channelMatches[1].name),
                               authorizedTopics)
       IN
       IF check # "" THEN
         /\ emitDegradedFailure(
              "reauthorization", check,
              IF messageTopic = "<none>" THEN authorizedTopics
              ELSE {messageTopic})
         /\ UNCHANGED <<authorizeCalls, reauthorizeCalls>>
       ELSE IF channelMatches[1].reauthorize THEN
         /\ reauthorizeCalls' = Append(reauthorizeCalls, {messageTopic})
         /\ pc' = "reauthorize"
         /\ UNCHANGED <<conn, emitLog, failures, authorizeCalls>>
       ELSE
         /\ authorizeCalls' = Append(authorizeCalls, {messageTopic})
         /\ pc' = "authorizeMessage"
         /\ UNCHANGED <<conn, emitLog, failures, reauthorizeCalls>>

\* The end of the upstream treated as a failure of the stream.
ReadDoneDegrades ==
  /\ pc = "read"
  /\ emitDegradedThenFinish("Realtime stream failed")
  /\ value' = NullChunk
  /\ shouldContinueStream' = "unset"
  /\ messageAuthorizationResult' = NoResult
  /\ UNCHANGED <<config, clientVars, onFailureResult, requestDone, failures,
                 authorizeCalls, reauthorizeCalls, tokenRequests, readState,
                 ticks>>

\* reader.read() resolves with done = true (the upstream ended, or the
\* reader was cancelled).
ReadDone ==
  /\ pc = "read"
  /\ pc' = "done"
  /\ conn' = stop(conn)
  /\ value' = NullChunk
  /\ shouldContinueStream' = "unset"
  /\ messageAuthorizationResult' = NoResult
  /\ UNCHANGED <<config, clientVars, onFailureResult, requestDone, failures,
                 authorizeCalls, reauthorizeCalls, emitLog, tokenRequests,
                 readState, ticks>>

\* reader.read() rejects: the catch block.
ReadThrows(error) ==
  /\ pc = "read"
  /\ emitDegradedFailure("stream", formatError(error), authorizedTopics)
  /\ value' = NullChunk
  /\ shouldContinueStream' = "unset"
  /\ messageAuthorizationResult' = NoResult
  /\ UNCHANGED <<config, clientVars, onFailureResult, requestDone,
                 authorizeCalls, reauthorizeCalls, tokenRequests, readState, ticks>>

\* Values a `reauthorize` callback can hand back.
ReauthorizeResults == {"true", "false", "undefined", "truthy"}

\* shouldContinueStream !== true  fails the stream closed.
ShouldContinueStreamTruthy(result) == result \in {"true", "truthy"}

ShouldContinueStream(result) == result = "true"

\* The dedicated reauthorize callback returns for the message in `value`.
ReauthorizeReturns(result) ==
  /\ pc = "reauthorize"
  /\ IF ShouldContinueStream(result)
     THEN forward(value) /\ UNCHANGED failures
     ELSE emitDegradedFailure("reauthorization", "Forbidden",
                              {getMessageTopic(value)})
  /\ shouldContinueStream' = result
  /\ UNCHANGED <<config, clientVars, onFailureResult, requestDone,
                 authorizeCalls, reauthorizeCalls, tokenRequests, value,
                 messageAuthorizationResult, readState, ticks>>

\* reauthorize, or authorize re-run for a message, throws.
MessageCheckThrowsIgnored(error) ==
  /\ pc \in {"reauthorize", "authorizeMessage"}
  /\ forward(value)
  /\ IF pc = "reauthorize"
     THEN /\ shouldContinueStream' = "throws"
          /\ UNCHANGED messageAuthorizationResult
     ELSE /\ messageAuthorizationResult' = ThrewResult(error)
          /\ UNCHANGED shouldContinueStream
  /\ UNCHANGED <<config, clientVars, onFailureResult, requestDone, failures,
                 authorizeCalls, reauthorizeCalls, tokenRequests, value,
                 readState, ticks>>

MessageCheckThrows(error) ==
  /\ pc \in {"reauthorize", "authorizeMessage"}
  /\ emitDegradedFailure("reauthorization", formatError(error),
                         {getMessageTopic(value)})
  /\ IF pc = "reauthorize"
     THEN /\ shouldContinueStream' = "throws"
          /\ UNCHANGED messageAuthorizationResult
     ELSE /\ messageAuthorizationResult' = ThrewResult(error)
          /\ UNCHANGED shouldContinueStream
  /\ UNCHANGED <<config, clientVars, onFailureResult, requestDone,
                 authorizeCalls, reauthorizeCalls, tokenRequests, value,
                 readState, ticks>>

\* Whether a re-run of authorize with topics = [topic] lets the message pass:
\* `false` denies, an object denies when its allowedTopics leave nothing.
MessageAllowedIgnoringSubset(topic, result) == result.kind # "false"

MessageAllowed(topic, result) ==
  /\ result.kind # "false"
  /\ IsObject(result) => filterAllowedTopics({topic}, result) # {}

NullAllowedTopicsError ==
  "Cannot read properties of null (reading 'allowedTopics')"

\* authorize, re-run for the message in `value`, returns.
AuthorizeMessageReturns(result) ==
  /\ pc = "authorizeMessage"
  /\ IF result.kind = "null" THEN
       \* `null.allowedTopics` raises a TypeError inside the try block.
       emitDegradedFailure("stream", NullAllowedTopicsError, authorizedTopics)
     ELSE IF MessageAllowed(getMessageTopic(value), result) THEN
       forward(value) /\ UNCHANGED failures
     ELSE
       emitDegradedFailure("reauthorization", "Forbidden",
                           {getMessageTopic(value)})
  /\ messageAuthorizationResult' = result
  /\ UNCHANGED <<config, clientVars, onFailureResult, requestDone,
                 authorizeCalls, reauthorizeCalls, tokenRequests, value,
                 shouldContinueStream, readState, ticks>>

\* Await points of the pump.  The timer and the cleanup run at these points
\* and after the pump has ended.
Suspended ==
  {"token", "subscribe", "read", "reauthorize", "authorizeMessage",
   "onFailure"}

\* The liveness timer fires: emitHealth(connected).
HeartbeatTick ==
  /\ pc \in Suspended \cup {"done"}
  /\ conn.heartbeat = "active"
  /\ ticks < MaxTicks
  /\ ticks' = ticks + 1
  /\ \E ok \in EmitOutcomes(conn) :
       /\ emitLog' = Append(emitLog, EmitEntry("health", "connected", "tick", ok, conn))
       /\ conn' = emitHealth(conn, ok)
  /\ UNCHANGED <<config, clientVars, onFailureResult, requestDone, pc,
                 failures, authorizeCalls, reauthorizeCalls, tokenRequests,
                 iteration, readState>>

\* The transport runs the cleanup returned to produce: () => stop().
Cleanup ==
  /\ pc \in Suspended \cup {"done"}
  /\ conn' = stop(conn)
  /\ UNCHANGED <<config, clientVars, onFailureResult, requestDone, pc,
                 failures, authorizeCalls, reauthorizeCalls, emitLog,
                 tokenRequests, iteration, readState, ticks>>

\* -------------------------------------------------------------- behaviours
Next ==
  \/ \E p \in Payloads : Request(p)
  \/ \E hook \in HookResults : FailRequestResolves(hook)
  \/ \E error \in Thrown : AuthorizeThrows(error)
  \/ \E result \in AuthorizationResults : AuthorizeReturns(result)
  \/ PumpStart
  \/ TokenReturns
  \/ \E error \in Thrown : AcquireThrows(error)
  \/ SubscribeReturns
  \/ \E chunk \in Chunks : ReadReturns(chunk)
  \/ ReadDone
  \/ \E error \in Thrown : ReadThrows(error)
  \/ \E result \in ReauthorizeResults : ReauthorizeReturns(result)
  \/ \E result \in AuthorizationResults : AuthorizeMessageReturns(result)
  \/ \E error \in Thrown : MessageCheckThrows(error)
  \/ \E hook \in HookResults : OnFailureReturns(hook)
  \/ HeartbeatTick
  \/ Cleanup

Spec == Init /\ [][Next]_vars

\* The request phase alone, against every registry of up to MaxRegistry
\* entries: the stream pump is left out, a produced stream ends the behaviour.
RegistryKey(i) == "entry" \o ToString(i)

RegistryEntries(i) ==
  { Entry(RegistryKey(i), n, FALSE, r, FALSE) :
      n \in {"demo", "other"}, r \in Tri }
  \cup { Entry(RegistryKey(i), "demo", TRUE, "unset", FALSE) }

Registries ==
  UNION { { r \in [1..n -> UNION {RegistryEntries(i) : i \in 1..n}] :
              \A i \in 1..n : r[i] \in RegistryEntries(i) } :
          n \in 0..MaxRegistry }

RegistryInit ==
  /\ channels \in Registries
  /\ reauthorizeOnEachMessage \in Tri
  /\ healthCheck \in {h \in HealthCheckOptions : h.enabled = "unset"}
  /\ hasOnFailure \in BOOLEAN
  /\ InitRequest
  /\ ManagerIdle
  /\ ConnectionIdle
  /\ TopicIdle

RequestNext ==
  \/ \E p \in Payloads : Request(p)
  \/ \E hook \in HookResults : FailRequestResolves(hook)
  \/ \E error \in Thrown : AuthorizeThrows(error)
  \/ \E result \in AuthorizationResults : AuthorizeReturns(result)

RegistrySpec == RegistryInit /\ [][RequestNext]_vars

\* One request and its stream under every combination of the per-channel
\* and the endpoint-wide reauthorizeOnEachMessage, with and without a
\* reauthorize callback; no onFailure hook and the health check disabled, so
\* that the hook never settles and the liveness timer is never set: the
\* actions below are those of Next that can be enabled.
OverrideRegistries ==
  { <<Entry("demo", "demo", FALSE, r, h)>> : r \in Tri, h \in BOOLEAN }

OverrideInit ==
  /\ channels \in OverrideRegistries
  /\ reauthorizeOnEachMessage \in Tri
  /\ healthCheck = [enabled |-> "false", hasInterval |-> FALSE, intervalMs |-> 0]
  /\ hasOnFailure = FALSE
  /\ InitRequest
  /\ ManagerIdle
  /\ ConnectionIdle
  /\ TopicIdle

OverrideNext ==
  \/ \E p \in Payloads : Request(p)
  \/ \E error \in Thrown : AuthorizeThrows(error)
  \/ \E result \in AuthorizationResults : AuthorizeReturns(result)
  \/ PumpStart
  \/ TokenReturns
  \/ \E error \in Thrown : AcquireThrows(error)
  \/ SubscribeReturns
  \/ \E chunk \in Chunks : ReadReturns(chunk)
  \/ ReadDone
  \/ \E error \in Thrown : ReadThrows(error)
  \/ \E result \in ReauthorizeResults : ReauthorizeReturns(result)
  \/ \E result \in AuthorizationResults : AuthorizeMessageReturns(result)
  \/ \E error \in Thrown : MessageCheckThrows(error)
  \/ Cleanup

OverrideSpec == OverrideInit /\ [][OverrideNext]_vars

\* One request and its stream on a channel that reauthorizes every message,
\* with an onFailure hook and the default health check, in which every
\* awaited call of the pump settles: a pump suspended at an await (the
\* token, the subscription, a read, a message check, the hook) is
\* eventually resumed, by a value or by a throw.  Nothing is assumed of the
\* client and of the timer.
TeardownRegistries ==
  { <<Entry("demo", "demo", FALSE, "true", h)>> : h \in BOOLEAN }

TeardownInit ==
  /\ channels \in TeardownRegistries
  /\ reauthorizeOnEachMessage = "unset"
  /\ healthCheck = [enabled |-> "unset", hasInterval |-> FALSE, intervalMs |-> 0]
  /\ hasOnFailure = TRUE
  /\ InitRequest
  /\ ManagerIdle
  /\ ConnectionIdle
  /\ TopicIdle

PumpResumes ==
  \/ TokenReturns
  \/ \E error \in Thrown : AcquireThrows(error)
  \/ SubscribeReturns
  \/ \E chunk \in Chunks : ReadReturns(chunk)
  \/ ReadDone
  \/ \E error \in Thrown : ReadThrows(error)
  \/ \E result \in ReauthorizeResults : ReauthorizeReturns(result)
  \/ \E result \in AuthorizationResults : AuthorizeMessageReturns(result)
  \/ \E error \in Thrown : MessageCheckThrows(error)
  \/ \E hook \in HookResults : OnFailureReturns(hook)

TeardownSpec == TeardownInit /\ [][Next]_vars /\ WF_vars(PumpResumes)

\* ------------------------------------------------- the RealtimeManager
\* Reconciliations after the mount that the component is followed through.
MaxApplies == 2

Endpoints == {"/api/events", "/api/other"}

\* Object.keys(resolvedChannel.topics), in insertion order.
TopicKeys(name) ==
  IF name = "demo" THEN <<"message", "admin-message">> ELSE <<"message">>

\* params of a descriptor: undefined, or an object given as its entries in
\* insertion order (the order JSON.stringify writes them in).
Undefined == <<"undefined">>
ParamsAB == <<<<"a", "1">>, <<"b", "2">>>>
ParamsBA == <<<<"b", "2">>, <<"a", "1">>>>

Subscription(channel, channelParams, topics, params) ==
  [channel |-> channel, channelParams |-> channelParams, topics |-> topics,
   params |-> params]

\* Descriptors a page can pass: the demo channel with several spellings of
\* its topic list and of its params, and the user channel factory.
Descriptors ==
  { Subscription("demo", "undefined", t, Undefined) :
      t \in { <<>>, <<"message">>, <<"message", "admin-message">>,
              <<"admin-message", "message">>, <<"message", "message">> } }
  \cup { Subscription("demo", "undefined", <<"message">>, q) :
           q \in {ParamsAB, ParamsBA} }
  \cup { Subscription("user", "alice", <<>>, Undefined) }

UserAlice == Subscription("user", "alice", <<>>, Undefined)

\* Subscription lists: none, one descriptor, a descriptor beside the user
\* channel in either order (the user channel twice among them), and the
\* demo channel twice.
SubscriptionLists ==
  {<<>>} \cup {<<d>> : d \in Descriptors}
         \cup {<<d, UserAlice>> : d \in Descriptors}
         \cup {<<UserAlice, d>> : d \in Descriptors}
         \cup {<<Subscription("demo", "undefined", <<"message">>, Undefined),
                 Subscription("demo", "undefined", <<>>, Undefined)>>}

\* resolveChannel: a channel factory is called with channelParams, a channel
\* object is taken as it is.
resolveChannel(input, channelParam) ==
  IF input = "user"
  THEN [name |-> "user:" \o channelParam, topics |-> <<"message">>]
  ELSE [name |-> input, topics |-> TopicKeys(input)]

Range(seq) == {seq[i] : i \in DOMAIN seq}

\* Array.prototype.sort() order of the topic names.
SortedTopics == <<"admin-message", "bogus", "message">>

\* normalizeTopics: [...new Set(topics)].sort()
normalizeKeepsSpelling(topics) == topics

normalizeTopics(topics) ==
  SelectSeq(SortedTopics, LAMBDA t : t \in Range(topics))

\* serializeSignature: the JSON text of endpoint, channel, normalized topics
\* and params (null when undefined); equal texts are equal tuples here.
serializeSignature(subscription, currentEndpoint) ==
  <<currentEndpoint, subscription.channelId,
    normalizeTopics(subscription.topics),
    IF subscription.params = Undefined THEN <<"null">>
    ELSE subscription.params>>

\* resolveSubscriptions: descriptors are resolved in order; a channel id seen
\* before throws.
RECURSIVE resolveFrom(_, _, _, _)
resolveFrom(input, i, seen, resolved) ==
  IF i > Len(input) THEN [threw |-> FALSE, resolved |-> resolved]
  ELSE
    LET subscription == input[i]
        resolvedChannel ==
          resolveChannel(subscription.channel, subscription.channelParams)
        channelId == resolvedChannel.name
        requested ==
          IF Len(subscription.topics) > 0 THEN subscription.topics
          ELSE resolvedChannel.topics
    IN
    IF channelId \in seen THEN [threw |-> TRUE, resolved |-> resolved]
    ELSE resolveFrom(input, i + 1, seen \cup {channelId},
                     Append(resolved,
                            [channelId |-> channelId,
                             topics |-> normalizeTopics(requested),
                             params |-> subscription.params]))

RECURSIVE resolveNoDuplicateCheck(_, _, _, _)
resolveNoDuplicateCheck(input, i, seen, resolved) ==
  IF i > Len(input) THEN [threw |-> FALSE, resolved |-> resolved]
  ELSE
    LET subscription == input[i]
        resolvedChannel ==
          resolveChannel(subscription.channel, subscription.channelParams)
        requested ==
          IF Len(subscription.topics) > 0 THEN subscription.topics
          ELSE resolvedChannel.topics
    IN
    resolveNoDuplicateCheck(input, i + 1, seen,
                     Append(resolved,
                            [channelId |-> resolvedChannel.name,
                             topics |-> normalizeTopics(requested),
                             params |-> subscription.params]))

resolveSubscriptionsUnchecked(input) ==
  resolveNoDuplicateCheck(input, 1, {}, <<>>)

resolveSubscriptions(input) == resolveFrom(input, 1, {}, <<>>)

\* The active-connections map and the connections created so far, as
\* syncConnections goes through them.
Restrict(f, keys) == [k \in keys |-> f[k]]

Put(f, key, v) == [k \in DOMAIN f \cup {key} |-> IF k = key THEN v ELSE f[k]]

\* What a reconciliation did to the connections, in the order it did it:
\* stop() of a connection, or createConnection of a new one.
Op(kind, context) == [kind |-> kind, context |-> context]

\* The stop() calls of a loop over Object.entries(activeConnections): the
\* entries come in insertion order, the order the connections were created
\* in.
StopOps(conns, contexts) ==
  LET all == [i \in DOMAIN conns |-> Op("stop", i)]
  IN  SelectSeq(all, LAMBDA op : op.context \in contexts)

\* The body of the POST request a connection opens its transport with.
requestBody(subscription) ==
  [channel |-> subscription.channelId, topics |-> subscription.topics,
   params |-> subscription.params]

\* ManagedConnection.stop of the connections with these context ids:
\* streamHealthUnsubscribe() and events.close().
stopNothing(conns, contexts) == conns

stopConnections(conns, contexts) ==
  [i \in DOMAIN conns |->
     IF i \in contexts THEN [conns[i] EXCEPT !.stops = @ + 1] ELSE conns[i]]

\* The removal loop: connections whose channel id is not in nextByChannel
\* are stopped and deleted.
removeStaleKeepsAll(state, nextIds) == state

removeStale(state, nextIds) ==
  LET gone == DOMAIN state.active \ nextIds
      contexts == {state.active[id].context : id \in gone}
  IN  [active |-> Restrict(state.active, DOMAIN state.active \ gone),
       connections |-> stopConnections(state.connections, contexts),
       ops |-> state.ops \o StopOps(state.connections, contexts)]

\* existing?.signature === nextSignature
signatureNeverMatches(state, channelId, nextSignature) == FALSE

signatureMatches(state, channelId, nextSignature) ==
  /\ channelId \in DOMAIN state.active
  /\ state.active[channelId].signature = nextSignature

\* createConnection: a new transport, opened with the request body, and a
\* new context; the signature is stored.
createConnection(subscription, currentEndpoint, conns) ==
  [signature |-> serializeSignature(subscription, currentEndpoint),
   context |-> Len(conns) + 1,
   body |-> requestBody(subscription)]

\* One entry of the create/replace loop whose signature differs: the
\* existing connection, if any, is stopped and deleted, then the new one is
\* created.
replaceOpsCreatesFirst(state, id, created) ==
  <<Op("create", created.context)>>
    \o (IF id \in DOMAIN state.active
        THEN <<Op("stop", state.active[id].context)>> ELSE <<>>)

replaceOps(state, id, created) ==
  (IF id \in DOMAIN state.active
   THEN <<Op("stop", state.active[id].context)>> ELSE <<>>)
    \o <<Op("create", created.context)>>

\* The create/replace loop over nextSubscriptions, in order.
RECURSIVE createFrom(_, _, _, _)
createFrom(nextSubscriptions, i, currentEndpoint, state) ==
  IF i > Len(nextSubscriptions) THEN state
  ELSE
    LET subscription == nextSubscriptions[i]
        id == subscription.channelId
        nextSignature == serializeSignature(subscription, currentEndpoint)
        stopped ==
          IF id \in DOMAIN state.active
          THEN stopConnections(state.connections, {state.active[id].context})
          ELSE state.connections
        created == createConnection(subscription, currentEndpoint, stopped)
    IN
    IF signatureMatches(state, id, nextSignature)
    THEN createFrom(nextSubscriptions, i + 1, currentEndpoint, state)
    ELSE createFrom(nextSubscriptions, i + 1, currentEndpoint,
                    [active |-> Put(state.active, id, created),
                     connections |->
                       Append(stopped, [channelId |-> id, stops |-> 0]),
                     ops |-> state.ops \o replaceOps(state, id, created)])

\* publishContext: channel id -> context of the active connection.
publishNothing(active) == EmptyMap

publishContext(active) == [id \in DOMAIN active |-> active[id].context]

\* syncConnections up to its publishContext() call.
syncConnections(nextSubscriptions, currentEndpoint, state) ==
  createFrom(nextSubscriptions, 1, currentEndpoint,
             removeStale(state,
                         {nextSubscriptions[i].channelId :
                            i \in DOMAIN nextSubscriptions}))

\* applySubscriptions with the props (e, subs): resolveSubscriptions first,
\* which may throw, then syncConnections and the publication.
applySubscriptions(e, subs) ==
  LET r == resolveSubscriptions(subs)
      done == syncConnections(r.resolved, e,
                              [active |-> activeConnections,
                               connections |-> connections,
                               ops |-> <<>>])
  IN
  /\ endpoint' = e
  /\ subscriptions' = subs
  /\ lastApply' = [threw |-> r.threw,
                   sameProps |-> /\ lifecycle = "mounted"
                                 /\ e = endpoint
                                 /\ subs = subscriptions,
                   ops |-> IF r.threw THEN <<>> ELSE done.ops]
  /\ IF r.threw
     THEN UNCHANGED <<activeConnections, channelsStore, connections>>
     ELSE /\ activeConnections' = done.active
          /\ connections' = done.connections
          /\ channelsStore' = publishContext(done.active)

\* The component is instantiated: the synchronous applySubscriptions().  A
\* throw ends the instantiation before $effect and onDestroy are registered.
Mount(e, subs) ==
  /\ lifecycle = "unmounted"
  /\ applySubscriptions(e, subs)
  /\ lifecycle' = IF resolveSubscriptions(subs).threw THEN "failed"
                  ELSE "mounted"
  /\ UNCHANGED <<applies, serverVars, connectionVars, topicVars>>

\* The $effect runs: after the mount with the props of the mount, and again
\* whenever endpoint or subscriptions were given a new value.
Effect(e, subs) ==
  /\ lifecycle = "mounted"
  /\ applies < MaxApplies
  /\ applies' = applies + 1
  /\ applySubscriptions(e, subs)
  /\ UNCHANGED <<lifecycle, serverVars, connectionVars, topicVars>>

\* onDestroy: every active connection is stopped and deleted, {} is
\* published.
Destroy ==
  /\ lifecycle = "mounted"
  /\ lifecycle' = "destroyed"
  /\ connections' =
       stopConnections(connections,
                       {activeConnections[id].context :
                          id \in DOMAIN activeConnections})
  /\ activeConnections' = EmptyMap
  /\ channelsStore' = EmptyMap
  /\ UNCHANGED <<endpoint, subscriptions, applies, lastApply, serverVars,
                 connectionVars, topicVars>>

\* The server side at rest, for the behaviours of the client alone.
ServerIdle ==
  /\ channels = <<Entry("demo", "demo", FALSE, "unset", FALSE)>>
  /\ reauthorizeOnEachMessage = "unset"
  /\ healthCheck = [enabled |-> "unset", hasInterval |-> FALSE, intervalMs |-> 0]
  /\ hasOnFailure = FALSE
  /\ InitRequest

ManagerInit == ServerIdle /\ ManagerIdle /\ ConnectionIdle /\ TopicIdle

ManagerNext ==
  \/ \E e \in Endpoints, subs \in SubscriptionLists : Mount(e, subs)
  \/ \E e \in Endpoints, subs \in SubscriptionLists : Effect(e, subs)
  \/ Destroy

ManagerSpec == ManagerInit /\ [][ManagerNext]_vars

\* ------------------------------------------------- one managed connection
\* Transport and health events one connection is followed through.
MaxEvents == 3

\* SseEvent of the open/close/error callbacks: `error` is the message of an
\* Error instance or "none"; status and statusText of the response.
SseEvent(error, status, statusText) ==
  [error |-> error, status |-> status, statusText |-> statusText]

SseEvents ==
  { SseEvent("none", 200, "OK"),
    SseEvent("none", 403, "Forbidden"),
    SseEvent("none", 500, "Internal Server Error"),
    SseEvent("boom", 500, "Internal Server Error") }

\* Template-literal text of a status code.
StatusString(status) ==
  CASE status = 200 -> "200"
    [] status = 403 -> "403"
    [] status = 500 -> "500"

\* getDetail: the Error's message, else "<status> <statusText>" from 400 on,
\* else undefined.
getDetail(event) ==
  IF event.error # "none" THEN event.error
  ELSE IF event.status >= 400
       THEN StatusString(event.status) \o " " \o event.statusText
       ELSE "undefined"

\* Values of the `health` event stream: null, or a parsed HealthPayload.
NullHealth == [ok |-> FALSE, status |-> "null", detail |-> "undefined"]

HealthValues ==
  { NullHealth,
    HealthPayload(TRUE, "connecting", "undefined"),
    HealthPayload(TRUE, "connected", "undefined"),
    HealthPayload(FALSE, "degraded", "Forbidden"),
    HealthPayload(FALSE, "degraded", "boom"),
    HealthPayload(FALSE, "degraded", "undefined") }

\* RealtimeClientFailureContext, as far as reportFailure reads it.
ClientFailure(source, message, status, statusText) ==
  [source |-> source, message |-> message, status |-> status,
   statusText |-> statusText]

\* x ?? null inside JSON.stringify
OrNull(x) == IF x = "undefined" THEN "null" ELSE x

\* The failure fingerprint: JSON text of message, status and statusText.
Fingerprint(failure) ==
  [message |-> OrNull(failure.message), status |-> OrNull(failure.status),
   statusText |-> OrNull(failure.statusText), set |-> TRUE]

\* How a call of the onFailure prop can end inside reportFailure: it returns
\* (a value or a promise, whose rejection is swallowed) or throws.
CallbackOutcomes == {"returns", "throws"}

TransportEvent(kind, event, v) == [kind |-> kind, event |-> event, value |-> v]

\* reportFailure: nothing for the fingerprint seen last; else the
\* fingerprint is stored and the callback, when given, is called.
reportsAlways(failure, last) == TRUE

reports(failure, last) == Fingerprint(failure) # last

reportFailure(failure) ==
  IF reports(failure, lastFailureFingerprint)
  THEN /\ lastFailureFingerprint' = Fingerprint(failure)
       /\ failureCalls' = IF onFailure THEN Append(failureCalls, failure)
                          ELSE failureCalls
  ELSE UNCHANGED <<lastFailureFingerprint, failureCalls>>

\* The callback was called by this step and threw.
Threw(outcome) ==
  /\ outcome = "throws"
  /\ Len(failureCalls') > Len(failureCalls)

\* open: the fingerprint is cleared, health becomes connected.
TransportOpen ==
  /\ Len(transportEvents) < MaxEvents
  /\ transportEvents' =
       Append(transportEvents,
              TransportEvent("open", SseEvent("none", 200, "OK"), NullHealth))
  /\ lastFailureFingerprint' = NoFingerprint
  /\ health' = HealthPayload(TRUE, "connected", "undefined")
  /\ UNCHANGED <<onFailure, failureCalls, serverVars, managerVars,
                 topicVars>>

\* close: nothing for a close without detail below status 400; else the
\* failure is reported and health becomes degraded.
TransportClose(event, outcome) ==
  /\ Len(transportEvents) < MaxEvents
  /\ transportEvents' =
       Append(transportEvents, TransportEvent("close", event, NullHealth))
  /\ IF getDetail(event) = "undefined" /\ event.status < 400
     THEN UNCHANGED <<lastFailureFingerprint, failureCalls, health>>
     ELSE /\ reportFailure(
               ClientFailure("transport-close", getDetail(event),
                             StatusString(event.status), event.statusText))
          /\ health' = IF Threw(outcome) THEN health
                       ELSE HealthPayload(FALSE, "degraded", getDetail(event))
  /\ UNCHANGED <<onFailure, serverVars, managerVars, topicVars>>

\* error: the failure is reported, with a default detail, and health becomes
\* degraded.
TransportError(event, outcome) ==
  LET detail == IF getDetail(event) = "undefined"
                THEN "Realtime connection error" ELSE getDetail(event)
  IN
  /\ Len(transportEvents) < MaxEvents
  /\ transportEvents' =
       Append(transportEvents, TransportEvent("error", event, NullHealth))
  /\ reportFailure(
       ClientFailure("transport-error", detail, StatusString(event.status),
                     event.statusText))
  /\ health' = IF Threw(outcome) THEN health
               ELSE HealthPayload(FALSE, "degraded", detail)
  /\ UNCHANGED <<onFailure, serverVars, managerVars, topicVars>>

\* The streamHealth subscriber: null is skipped; the value is stored; an ok
\* value clears the fingerprint, any other is reported.
HealthEvent(v) ==
  /\ Len(transportEvents) < MaxEvents
  /\ transportEvents' =
       Append(transportEvents,
              TransportEvent("health", SseEvent("none", 200, "OK"), v))
  /\ IF v = NullHealth
     THEN UNCHANGED <<lastFailureFingerprint, failureCalls, health>>
     ELSE /\ health' = v
          /\ IF v.ok
             THEN /\ lastFailureFingerprint' = NoFingerprint
                  /\ UNCHANGED failureCalls
             ELSE reportFailure(
                    ClientFailure("health", v.detail, "undefined",
                                  "undefined"))
  /\ UNCHANGED <<onFailure, serverVars, managerVars, topicVars>>

ConnectionInit ==
  /\ ServerIdle
  /\ ManagerIdle
  /\ TopicIdle
  /\ onFailure \in BOOLEAN
  /\ lastFailureFingerprint = NoFingerprint
  /\ health = HealthPayload(TRUE, "connecting", "undefined")
  /\ transportEvents = <<>>
  /\ failureCalls = <<>>

ConnectionNext ==
  \/ TransportOpen
  \/ \E event \in SseEvents, outcome \in CallbackOutcomes :
       TransportClose(event, outcome)
  \/ \E event \in SseEvents, outcome \in CallbackOutcomes :
       TransportError(event, outcome)
  \/ \E v \in HealthValues : HealthEvent(v)

ConnectionSpec == ConnectionInit /\ [][ConnectionNext]_vars

\* ------------------------------------------- getRealtimeBusTopicJson
\* `message` events one subscribed store is followed through.
MaxMessages == 3

\* A `message` event of the connection: its text parses to an envelope
\* with a topic (or none) and data, or does not parse.
SseMessage(parses, t, data) == [parses |-> parses, topic |-> t, data |-> data]

SseMessages ==
  { SseMessage(TRUE, t, d) :
      t \in {"message", "admin-message", "<none>"}, d \in {"d1", "d2"} }
  \cup { SseMessage(FALSE, "<null>", "<null>") }

\* The default `or` of the json store: ({ previous }) => previous ?? null
defaultOr(last) == last

\* select("message").json(or): the parsed envelope, or what `or` returns
\* for the value the store held.
parse(m, last) ==
  IF m.parses THEN [topic |-> m.topic, data |-> m.data] ELSE defaultOr(last)

\* options.map ?? identity; the map option given here projects the data.
mapMessage(message) ==
  IF mapOption THEN [output |-> message.data] ELSE message

\* The callback of the derived store: a null value or another topic gives
\* `previous`; else `previous` becomes the mapped message.
derivedAnyTopic(message) ==
  IF message = NullMessage THEN previous ELSE mapMessage(message)

derivedCallback(message) ==
  IF message = NullMessage \/ message.topic # busTopic THEN previous
  ELSE mapMessage(message)

\* A `message` event arrives: the json store takes its value and the
\* derived store runs its callback on it.
MessageArrives(m) ==
  /\ Len(sseMessages) < MaxMessages
  /\ sseMessages' = Append(sseMessages, m)
  /\ parsedMessages' = parse(m, parsedMessages)
  /\ previous' = derivedCallback(parsedMessages')
  /\ topicJson' = previous'
  /\ UNCHANGED <<busTopic, mapOption, serverVars, managerVars,
                 connectionVars>>

\* The store of one topic of the demo channel, with or without a map
\* option, once it is subscribed to: the callback has run on null.
TopicInit ==
  /\ ServerIdle
  /\ ManagerIdle
  /\ ConnectionIdle
  /\ busTopic \in {"message", "admin-message"}
  /\ mapOption \in BOOLEAN
  /\ parsedMessages = NullMessage
  /\ previous = NullMessage
  /\ topicJson = NullMessage
  /\ sseMessages = <<>>

TopicNext == \E m \in SseMessages : MessageArrives(m)

TopicSpec == TopicInit /\ [][TopicNext]_vars

\* ------------------------------------------------------------------ claims
\* Positions of the emit log by what was handed to emit.
MessageEmits == {i \in DOMAIN emitLog : emitLog[i].event = "message"}

DegradedEmits ==
  {i \in DOMAIN emitLog :
     emitLog[i].event = "health" /\ emitLog[i].data = "degraded"}

\* The pump task has ended after one health=degraded emit, the last emit of
\* the connection, and the connection is closed.
DegradedAndClosed ==
  /\ conn.closed
  /\ Cardinality(DegradedEmits) = 1
  /\ Len(emitLog) \in DegradedEmits

\* An explicit allow: `true`, or allowedTopics that hold a requested topic.
ExplicitAllow(result, requested) ==
  \/ result.kind = "true"
  \/ result.kind = "allowed" /\ result.allowedTopics \cap requested # {}

\* C1: a stream is opened, and a subscription token requested, only if the
\* request-time authorize returned exactly true or an allowedTopics object
\* holding a requested topic; every other outcome opens no stream.
C1_DenyByDefault ==
  (response.kind = "stream" \/ tokenRequests # <<>>)
    => ExplicitAllow(authorizationResult, requestedTopics)

\* C2: when authorize returned {allowedTopics: A} for requested topics R,
\* every envelope forwarded as a `message` event has a topic in A \cap R,
\* whatever the upstream delivers and with or without reauthorization.
C2_ForwardedWithinAllowed ==
  authorizationResult.kind = "allowed" =>
    \A i \in MessageEmits :
      emitLog[i].data \in authorizationResult.allowedTopics \cap requestedTopics

\* C3: with per-message reauthorization on, a message whose topic is not in
\* the session's authorized topics is never forwarded; handling it ends in
\* exactly one health=degraded emit and the closed stream.
C3_UnauthorizedTopicDegrades ==
  shouldReauthorizeOnEachMessage =>
    /\ \A i \in MessageEmits : emitLog[i].data \in authorizedTopics
    /\ (~value.null /\ getMessageTopic(value) \notin authorizedTopics) =>
         /\ pc \in {"onFailure", "done"}
         /\ failures # <<>>
         /\ failures[Len(failures)].stage = "reauthorization"
         /\ DegradedEmits = {} \/ Len(emitLog) \in DegradedEmits
         /\ pc = "done" => DegradedAndClosed

C3_Witness ==
  /\ shouldReauthorizeOnEachMessage
  /\ value = Envelope("admin-message")
  /\ authorizedTopics = {"message"}
  /\ MessageEmits # {}
  /\ pc = "done"
  /\ emitLog[Len(emitLog)].data = "degraded"
  /\ emitLog[Len(emitLog)].ok

\* The request-time authorize denied: false, a throw, or allowedTopics that
\* hold no requested topic.
Denied ==
  \/ authorizationResult.kind \in {"false", "throws"}
  \/ /\ authorizationResult.kind = "allowed"
     /\ authorizationResult.allowedTopics \cap requestedTopics = {}

DeniedMessage ==
  IF authorizationResult.kind = "throws"
  THEN formatError(authorizationResult.error) ELSE "Forbidden"

NothingStreamed ==
  /\ response.kind # "stream"
  /\ tokenRequests = <<>>
  /\ emitLog = <<>>
  /\ conn = NewConnection

\* C4 as stated: a denied request is answered 403 with the message
\* "Forbidden" or the thrown error's message, and nothing is streamed.
C4_DeniedAnswersForbidden ==
  Denied =>
    /\ pc \in {"failRequest", "responded"}
    /\ NothingStreamed
    /\ response.status = 403
    /\ failures[1].stage = "authorization"
    /\ pc = "responded" => response.error = DeniedMessage

\* C4 (amended): a denied request is answered 403, stage `authorization`;
\* the failure's message is "Forbidden" or formatError of what was thrown,
\* and the response carries it unless the onFailure hook replaced it; no
\* token is requested, no stream is opened, nothing is forwarded.
C4_DeniedIs403 ==
  Denied =>
    /\ pc \in {"failRequest", "responded"}
    /\ NothingStreamed
    /\ response.status = 403
    /\ Len(failures) = 1
    /\ failures[1].stage = "authorization"
    /\ failures[1].status = 403
    /\ failures[1].message = DeniedMessage
    /\ pc = "responded" =>
         /\ response.kind = "json"
         /\ response.error \in
              {DeniedMessage} \cup
                (IF hasOnFailure THEN {OverrideMessage} ELSE {})

C4_Witness ==
  /\ pc = "responded"
  /\ authorizationResult.kind = "allowed"
  /\ authorizationResult.allowedTopics = {"admin-message"}
  /\ requestedTopics = {"message"}
  /\ response.status = 403
  /\ response.error = "Forbidden"

\* Registry keys of the entries whose resolved name is `requested`, in
\* registry order (an entry whose resolution throws has no resolved name).
RECURSIVE MatchingKeys(_, _)
MatchingKeys(registry, requested) ==
  IF registry = <<>> THEN <<>>
  ELSE LET rest == MatchingKeys(Tail(registry), requested)
           e == Head(registry)
       IN  IF ~e.throws /\ e.name = requested
           THEN <<e.registryKey>> \o rest ELSE rest

ChannelResolutionFailure(status) ==
  /\ pc \in {"failRequest", "responded"}
  /\ response.kind \in {"pending", "json"}
  /\ response.status = status
  /\ Len(failures) = 1
  /\ failures[1].stage = "channel-resolution"
  /\ failures[1].status = status
  /\ authorizeCalls = <<>>

MatchCountDecides ==
  LET keys == MatchingKeys(channels, payload.channel)
  IN  /\ Len(keys) = 0 => ChannelResolutionFailure(400)
      /\ Len(keys) >= 2 =>
           /\ ChannelResolutionFailure(500)
           /\ response.matchingRegistryKeys = keys
      /\ response.kind = "stream" => Len(keys) = 1

\* C5 as stated: for every request naming a channel, zero matching entries
\* give a 400 and two or more a 500 channel-resolution failure listing the
\* matching keys, without authorize being invoked or a stream opened; a
\* stream is opened only when exactly one entry matches.
C5_MatchCountAlwaysDecides ==
  (pc # "idle" /\ payload.valid /\ payload.channel # "") => MatchCountDecides

\* C5 (amended): the same, for registries none of whose entries throws while
\* being resolved.
C5_ChannelResolution ==
  (/\ pc # "idle" /\ payload.valid /\ payload.channel # ""
   /\ \A i \in DOMAIN channels : ~channels[i].throws)
    => MatchCountDecides

C5_Witness ==
  /\ pc = "responded"
  /\ Len(MatchingKeys(channels, payload.channel)) = 2
  /\ response.status = 500
  /\ Len(response.matchingRegistryKeys) = 2

\* C6: stop() releases the connection lock exactly once, whatever triggers
\* it and however often: the lock has been released once when the
\* connection is closed and never otherwise, and a finished pump has closed.
C6_LockReleasedOnce ==
  /\ conn.lockReleases = IF conn.closed THEN 1 ELSE 0
  /\ pc = "done" => conn.closed

\* A failed emit (emitHealth calls stop) followed by the finally block.
C6_Witness ==
  /\ pc = "done"
  /\ conn.lockReleases = 1
  /\ \E i \in DOMAIN emitLog : ~emitLog[i].ok /\ ~emitLog[i].closed
  /\ conn.reader

\* C7: once the connection is closed and the pump has finished, no liveness
\* timer is active and every acquired reader has had cancel() attempted.
C7_ReaderCancelled ==
  (pc = "done" /\ conn.closed) =>
    /\ conn.heartbeat # "active"
    /\ conn.reader => conn.cancelCalls >= 1

\* C8: after stop() has marked the connection closed, the pump hands no
\* further event to emit.
C8_NoEmitAfterClosed ==
  \A i \in DOMAIN emitLog : ~emitLog[i].closed

\* authorize, re-run for a message with topic `topic`, denies.
Denies(result, topic) ==
  \/ result.kind = "false"
  \/ result.kind = "allowed" /\ topic \notin result.allowedTopics

\* C9: reauthorization on, no reauthorize callback: when authorize, re-run
\* for a message, denies, that message is not forwarded (every earlier
\* re-run has forwarded its message, this one has not), health=degraded is
\* emitted, the stream closes and no further message is emitted.
C9_AuthorizeTurnsToDeny ==
  (/\ shouldReauthorizeOnEachMessage
   /\ ~channelMatches[1].reauthorize
   /\ Denies(messageAuthorizationResult, getMessageTopic(value)))
    => /\ pc \in {"onFailure", "done"}
       /\ Cardinality(MessageEmits) = Len(authorizeCalls) - 2
       /\ failures[Len(failures)].stage = "reauthorization"
       /\ DegradedEmits = {} \/ Len(emitLog) \in DegradedEmits
       /\ pc = "done" => DegradedAndClosed

C9_Witness ==
  /\ pc = "done"
  /\ ~channelMatches[1].reauthorize
  /\ messageAuthorizationResult.kind = "false"
  /\ Len(authorizeCalls) = 3
  /\ Cardinality(MessageEmits) = 1
  /\ emitLog[Len(emitLog)].data = "degraded"
  /\ emitLog[Len(emitLog)].ok

\* C10: with a reauthorize callback and reauthorization on, a message is
\* forwarded only if reauthorize returned exactly true for it; any other
\* return value degrades with detail "Forbidden" (unless the onFailure hook
\* replaced it) and closes the stream, the message unforwarded; authorize
\* is not consulted again.
C10_ReauthorizeExactlyTrue ==
  (/\ shouldReauthorizeOnEachMessage
   /\ channelMatches[1].reauthorize)
    => /\ Len(authorizeCalls) = 1
       /\ Cardinality(MessageEmits) =
            Len(reauthorizeCalls)
              - (IF pc = "reauthorize"
                    \/ shouldContinueStream \notin {"true", "unset"}
                 THEN 1 ELSE 0)
       /\ shouldContinueStream \in {"false", "undefined", "truthy"} =>
            /\ pc \in {"onFailure", "done"}
            /\ failures[Len(failures)].stage = "reauthorization"
            /\ failures[Len(failures)].message = "Forbidden"
            /\ pc = "done" =>
                 /\ DegradedAndClosed
                 /\ emitLog[Len(emitLog)].detail \in
                      {"Forbidden"} \cup
                        (IF hasOnFailure THEN {OverrideMessage} ELSE {})

C10_Witness ==
  /\ pc = "done"
  /\ shouldContinueStream = "truthy"
  /\ Len(reauthorizeCalls) = 2
  /\ Cardinality(MessageEmits) = 1
  /\ emitLog[Len(emitLog)].detail = "Forbidden"
  /\ emitLog[Len(emitLog)].ok

\* The health events handed to emit, in order.
HealthLog == SelectSeq(emitLog, LAMBDA e : e.event = "health")

ConnectingFirstAndOnce ==
  /\ pc \in Suspended \cup {"done"} => HealthLog # <<>>
  /\ HealthLog # <<>> => HealthLog[1].data = "connecting"
  /\ \A i \in 2..Len(HealthLog) : HealthLog[i].data # "connecting"

\* C11 as stated: connecting is emitted once and first, and every degraded
\* has a connected somewhere before it.
C11_DegradedOnlyAfterConnected ==
  /\ ConnectingFirstAndOnce
  /\ \A i \in DOMAIN HealthLog :
       HealthLog[i].data = "degraded" =>
         \E j \in 1..(i - 1) : HealthLog[j].data = "connected"

\* C11: the health statuses of a connection are connecting once and first,
\* then connected any number of times, then at most one degraded, which is
\* last; a degraded with no connected before it directly follows connecting
\* and reports a failure of stage "stream" met before the reader was
\* acquired (the subscription token or the subscription was refused).
C11_HealthSequence ==
  /\ ConnectingFirstAndOnce
  /\ \A i \in DOMAIN HealthLog :
       HealthLog[i].data = "degraded" =>
         /\ i = Len(HealthLog)
         /\ \/ \E j \in 1..(i - 1) : HealthLog[j].data = "connected"
            \/ /\ i = 2
               /\ ~conn.reader
               /\ failures[Len(failures)].stage = "stream"

C11_Witness ==
  /\ pc = "done"
  /\ Len(HealthLog) = 4
  /\ HealthLog[2].data = "connected"
  /\ HealthLog[3].detail = "tick"
  /\ HealthLog[4].data = "degraded"
  /\ HealthLog[4].ok

TickEmits == {i \in DOMAIN emitLog : emitLog[i].detail = "tick"}

C19_HookOnlyReplacesMessage ==
  /\ ~hasOnFailure => onFailureResult = "none"
  /\ onFailureResult # "none" =>
       /\ pc \in {"responded", "done"}
       /\ failures # <<>>
  /\ (pc = "responded" /\ response.kind = "json") =>
       /\ response.status = failures[Len(failures)].status
       /\ response.error =
            IF onFailureResult = "message" THEN OverrideMessage
            ELSE failures[Len(failures)].message
  /\ (pc = "done" /\ failures # <<>>) =>
       /\ response.kind = "stream"
       /\ emitLog[Len(emitLog)].data = "degraded"
       /\ emitLog[Len(emitLog)].detail =
            IF onFailureResult = "message" THEN OverrideMessage
            ELSE failures[Len(failures)].message

C19_Witness ==
  /\ pc = "responded"
  /\ onFailureResult = "throws"
  /\ response.kind = "json"
  /\ response.status = 403
  /\ response.error = "Forbidden"

\* C20: when the channel is resolved and a requested topic is not one of its
\* topics, the answer is the 400 topic-validation failure listing exactly
\* the unknown topics and authorize is never called; every call of
\* authorize, at request time or for a message, has topics of the channel.
C20_TopicValidationFirst ==
  /\ (/\ pc # "idle"
      /\ payload.valid
      /\ Len(channelMatches) = 1
      /\ payload.topics \ TopicsOf(channelMatches[1].name) # {}) =>
       /\ authorizeCalls = <<>>
       /\ pc \in {"failRequest", "responded"}
       /\ failures[1].stage = "topic-validation"
       /\ failures[1].status = 400
       /\ response.status = 400
       /\ response.invalidTopics =
            payload.topics \ TopicsOf(channelMatches[1].name)
  /\ \A i \in DOMAIN authorizeCalls :
       authorizeCalls[i] \subseteq TopicsOf(channelMatches[1].name)

C20_Witness ==
  /\ pc = "responded"
  /\ response.status = 400
  /\ response.invalidTopics = {"bogus"}
  /\ authorizeCalls = <<>>

\* Channel id a descriptor resolves to, and the ids the list asks for.
ChannelIdOf(d) == resolveChannel(d.channel, d.channelParams).name

DesiredIds(subs) == {ChannelIdOf(subs[i]) : i \in DOMAIN subs}

HasDuplicate(subs) ==
  \E i, j \in DOMAIN subs : i < j /\ ChannelIdOf(subs[i]) = ChannelIdOf(subs[j])

\* Context ids of the connections that were created and not stopped.
Live == {c \in DOMAIN connections : connections[c].stops = 0}

Reconciled == lifecycle = "mounted" /\ ~lastApply.threw

\* C13: after a reconciliation that completed, the channel ids with an
\* active connection are exactly the ids of the subscription list, each id
\* has exactly one live connection, the one held in the map, and its stored
\* signature is the one computed from the endpoint and its descriptor.
C13_ReconciledExactly ==
  Reconciled =>
    /\ DOMAIN activeConnections = DesiredIds(subscriptions)
    /\ \A i \in DOMAIN subscriptions :
         LET d == subscriptions[i]
             id == ChannelIdOf(d)
         IN  /\ activeConnections[id].signature =
                  serializeSignature(
                    [channelId |-> id,
                     topics |-> IF d.topics = <<>>
                                THEN TopicKeys(d.channel) ELSE d.topics,
                     params |-> d.params],
                    endpoint)
             /\ {c \in Live : connections[c].channelId = id} =
                  {activeConnections[id].context}
    /\ \A c \in Live : connections[c].channelId \in DesiredIds(subscriptions)

C13_Witness ==
  /\ Reconciled
  /\ applies = MaxApplies
  /\ Len(subscriptions) = 1
  /\ Len(connections) = 4
  /\ Cardinality(Live) = 1

\* C14: an applySubscriptions run with the endpoint and the subscription
\* list it ran with last stops no connection and creates none; after the
\* mount and a first effect run with the same props there is one
\* connection per descriptor, none of them stopped.
C14_UnchangedPropsNoChurn ==
  /\ [][(/\ lifecycle = "mounted"
         /\ applies' = applies + 1
         /\ endpoint' = endpoint
         /\ subscriptions' = subscriptions)
          => (/\ connections' = connections
              /\ activeConnections' = activeConnections
              /\ channelsStore' = channelsStore)]_vars
  /\ []((/\ Reconciled
         /\ applies = 1
         /\ lastApply.sameProps)
          => (/\ Len(connections) = Len(subscriptions)
              /\ Live = DOMAIN connections))

C14_Witness ==
  /\ Reconciled
  /\ applies = MaxApplies
  /\ lastApply.sameProps
  /\ Len(subscriptions) = 2
  /\ Len(connections) = 2
  /\ Live = {1, 2}

\* C15: an applySubscriptions run over a list in which two descriptors
\* resolve to one channel id throws and leaves the active-connections map,
\* the published map and every connection as they were; at the mount the
\* component then has no connection at all.
C15_DuplicateThrowsFirst ==
  [][(/\ \/ applies' = applies + 1
         \/ lifecycle = "unmounted" /\ lifecycle' # "unmounted"
      /\ HasDuplicate(subscriptions'))
       => (/\ lastApply'.threw
           /\ activeConnections' = activeConnections
           /\ channelsStore' = channelsStore
           /\ connections' = connections
           /\ lifecycle = "unmounted" =>
                lifecycle' = "failed" /\ connections' = <<>>)]_vars

C15_Witness ==
  /\ lifecycle = "mounted"
  /\ lastApply.threw
  /\ HasDuplicate(subscriptions)
  /\ Cardinality(DOMAIN activeConnections) = 2
  /\ Cardinality(DOMAIN channelsStore) = 2

\* C16: the published map always maps the channel ids of the
\* active-connections map to the contexts held there, every published
\* context belongs to a connection that was not stopped, and after a
\* completed reconciliation its ids are exactly the ids asked for.
C16_PublishedIsActive ==
  /\ channelsStore =
       [id \in DOMAIN activeConnections |-> activeConnections[id].context]
  /\ \A id \in DOMAIN channelsStore :
       /\ channelsStore[id] \in Live
       /\ connections[channelsStore[id]].channelId = id
  /\ Reconciled => DOMAIN channelsStore = DesiredIds(subscriptions)

C16_Witness ==
  /\ Reconciled
  /\ Cardinality(DOMAIN channelsStore) = 2
  /\ Len(connections) = 4
  /\ Cardinality(Live) = 2

\* C17: a connection is stopped at most once; it is live exactly while the
\* active-connections map holds it; a channel id that left the list is not
\* in the published map; after the destroy every connection was stopped
\* once, the map is empty and {} is published.
C17_StoppedExactlyOnce ==
  /\ \A c \in DOMAIN connections :
       /\ connections[c].stops <= 1
       /\ connections[c].stops = 0 <=>
            \E id \in DOMAIN activeConnections :
              activeConnections[id].context = c
  /\ Reconciled => DOMAIN channelsStore \subseteq DesiredIds(subscriptions)
  /\ lifecycle = "destroyed" =>
       /\ activeConnections = EmptyMap
       /\ channelsStore = EmptyMap
       /\ \A c \in DOMAIN connections : connections[c].stops = 1

C17_Witness ==
  /\ lifecycle = "destroyed"
  /\ Len(connections) = 3
  /\ applies = MaxApplies

\* What a delivered event is for the deduplication: a reset (transport open,
\* ok health value), a failure with its (message, status, statusText), or
\* neither (a close without detail below 400, a null health value).
IsReset(x) ==
  \/ x.kind = "open"
  \/ x.kind = "health" /\ x.value # NullHealth /\ x.value.ok

IsFailure(x) ==
  \/ x.kind = "error"
  \/ x.kind = "close" /\ (x.event.error # "none" \/ x.event.status >= 400)
  \/ x.kind = "health" /\ x.value # NullHealth /\ ~x.value.ok

FailureTriple(x) ==
  IF x.kind = "health" THEN <<OrNull(x.value.detail), "null", "null">>
  ELSE <<IF x.event.error # "none" THEN x.event.error
         ELSE IF x.event.status >= 400
              THEN StatusString(x.event.status) \o " " \o x.event.statusText
              ELSE "Realtime connection error",
         StatusString(x.event.status), x.event.statusText>>

\* Positions of the failures that differ from the failure before them, with
\* no reset in between.
FreshFailures ==
  LET log == transportEvents
      Relevant(i) == {j \in 1..(i - 1) : IsReset(log[j]) \/ IsFailure(log[j])}
      Last(i) == CHOOSE j \in Relevant(i) : \A k \in Relevant(i) : k <= j
  IN  SelectSeq([i \in DOMAIN log |-> i],
                LAMBDA i :
                  /\ IsFailure(log[i])
                  /\ \/ Relevant(i) = {}
                     \/ IsReset(log[Last(i)])
                     \/ FailureTriple(log[Last(i)]) # FailureTriple(log[i]))

\* C18: the onFailure callback is called for exactly the failures whose
\* (message, status, statusText) differs from that of the failure before
\* them, or that are the first failure since a transport open or an ok
\* health value, in order and once each; without a callback nothing is
\* called.
C18_FailureCallsDeduplicated ==
  /\ ~onFailure => failureCalls = <<>>
  /\ onFailure =>
       /\ Len(failureCalls) = Len(FreshFailures)
       /\ \A n \in DOMAIN failureCalls :
            <<OrNull(failureCalls[n].message), OrNull(failureCalls[n].status),
              OrNull(failureCalls[n].statusText)>>
              = FailureTriple(transportEvents[FreshFailures[n]])

C18_Witness ==
  /\ onFailure
  /\ Len(transportEvents) = 3
  /\ IsFailure(transportEvents[1])
  /\ transportEvents[2].kind = "open"
  /\ transportEvents[3] = [transportEvents[1] EXCEPT !.kind = "error"]
  /\ Len(failureCalls) = 2

\* The chunks the reader delivered that are messages, and the message events
\* handed to emit, both in order.
UpstreamMessages == SelectSeq(upstream, LAMBDA c : ~c.null)

MessageLog == SelectSeq(emitLog, LAMBDA e : e.event = "message")

\* C21: the message events of a connection are, position by position, the
\* non-null chunks of the upstream sequence: none reordered, duplicated or
\* skipped, whatever liveness ticks are emitted in between; at most the last
\* chunk read is not forwarded (it is being checked, or it ended the
\* stream); the next chunk is read only when every earlier one has been
\* forwarded successfully.
C21_ForwardedInUpstreamOrder ==
  /\ Len(upstream) = reads
  /\ Len(MessageLog) <= Len(UpstreamMessages)
  /\ Len(MessageLog) >= Len(UpstreamMessages) - 1
  /\ \A i \in DOMAIN MessageLog :
       /\ MessageLog[i].data = getMessageTopic(UpstreamMessages[i])
       /\ i < Len(MessageLog) => MessageLog[i].ok
  /\ pc = "read" =>
       /\ Len(MessageLog) = Len(UpstreamMessages)
       /\ \A i \in DOMAIN MessageLog : MessageLog[i].ok
  /\ pc \in {"reauthorize", "authorizeMessage"} =>
       /\ Len(MessageLog) = Len(UpstreamMessages) - 1
       /\ value = upstream[Len(upstream)]

\* Two messages on different topics forwarded in upstream order with a
\* liveness tick between them.
C21_Witness ==
  /\ pc = "read"
  /\ upstream = <<Envelope("admin-message"), Envelope("message")>>
  /\ Len(MessageLog) = 2
  /\ MessageLog[1].data = "admin-message"
  /\ MessageLog[2].data = "message"
  /\ \E i, j, k \in DOMAIN emitLog :
       /\ i < j /\ j < k
       /\ emitLog[i].event = "message"
       /\ emitLog[j].detail = "tick"
       /\ emitLog[k].event = "message"

\* Stage and status of the first check of the request pipeline that fails,
\* in the order body parse, channel presence, registry scan, topic
\* validation, authorization; stage "none" when no check fails.
Outcome(stage, status) == [stage |-> stage, status |-> status]

FirstFailingCheck ==
  LET keys == MatchingKeys(channels, payload.channel)
  IN  IF ~payload.valid \/ payload.channel = ""
        THEN Outcome("request-validation", 400)
      ELSE IF \E i \in DOMAIN channels : channels[i].throws
        THEN Outcome("channel-resolution", 500)
      ELSE IF Len(keys) = 0 THEN Outcome("channel-resolution", 400)
      ELSE IF Len(keys) >= 2 THEN Outcome("channel-resolution", 500)
      ELSE IF requestedTopics \ TopicsOf(payload.channel) # {}
        THEN Outcome("topic-validation", 400)
      ELSE IF Denied THEN Outcome("authorization", 403)
      ELSE Outcome("none", 200)

\* The handler returned the JSON error of one failure of the given kind.
SingleJsonError(expected) ==
  /\ response.kind = "json"
  /\ response.status = expected.status
  /\ Len(failures) = 1
  /\ failures[1].stage = expected.stage
  /\ failures[1].status = expected.status
  /\ hasOnFailure <=> onFailureResult # "none"

StreamOpened ==
  /\ response.kind = "stream"
  /\ failures = <<>>
  /\ onFailureResult = "none"

\* C22: once the handler has returned, the request has yielded an opened
\* stream or one JSON error, the error's stage and status being those of the
\* first failing check; the onFailure hook has then run once for the failing
\* request, and not at all for a request that opened a stream.
C22_OneOutcomeInCheckOrder ==
  /\ pc = "failRequest" => Len(failures) = 1 /\ onFailureResult = "none"
  /\ pc \in {"responded", "produce"} =>
       IF FirstFailingCheck.stage = "none"
       THEN StreamOpened \/ SingleJsonError(Outcome("authorization", 403))
       ELSE SingleJsonError(FirstFailingCheck)

\* The message the Failure Resolver settled on for the last failure.
ResolvedDetail ==
  IF onFailureResult = "message" THEN OverrideMessage
  ELSE failures[Len(failures)].message

\* C23: a failure of stage `stream` (the token request, the subscription or
\* a read threw) is the last thing the pump reports: it was reported for the
\* authorized topics with formatError of what was thrown, the pump is
\* waiting for the onFailure hook or has ended, and once it has ended
\* exactly one health=degraded was handed to emit, as the last event, with
\* the resolved message as detail, and the connection is closed.
C23_StreamExceptionsDegrade ==
  \A i \in DOMAIN failures :
    failures[i].stage = "stream" =>
      /\ i = Len(failures)
      /\ response.kind = "stream"
      /\ failures[i].topics = authorizedTopics
      /\ failures[i].message \in
           {formatError(error) : error \in Thrown} \cup {NullAllowedTopicsError}
      /\ pc \in {"onFailure", "done"}
      /\ pc = "onFailure" => DegradedEmits = {} /\ hasOnFailure
      /\ pc = "done" =>
           /\ DegradedAndClosed
           /\ emitLog[Len(emitLog)].detail = ResolvedDetail
           /\ conn.lockReleases = 1
           /\ conn.heartbeat # "active"

\* A read that rejected after one message had been forwarded.
C23_Witness ==
  /\ pc = "done"
  /\ conn.reader
  /\ reads = 1
  /\ Len(MessageLog) = 1
  /\ failures # <<>>
  /\ failures[1].stage = "stream"
  /\ failures[1].message = "boom"
  /\ emitLog[Len(emitLog)].data = "degraded"
  /\ emitLog[Len(emitLog)].detail = "boom"
  /\ emitLog[Len(emitLog)].ok

\* Positions of the emit log where the transport reported an error on a
\* connection that was not closed yet.
EmitErrors == {i \in DOMAIN emitLog : ~emitLog[i].ok /\ ~emitLog[i].closed}

SameEvent(a, b) ==
  a.event = b.event /\ a.data = b.data /\ a.detail = b.detail

\* After an emit error the connection is closed, the lock released and the
\* timer cleared; the event is not handed to emit again and nothing handed
\* to emit afterwards is delivered; unless the error met a liveness tick the
\* pump has ended with that emit; every degraded emit and every run of the
\* onFailure hook belongs to a reported failure.
TornDownAfterEmitError ==
  /\ \A i \in EmitErrors :
       /\ conn.closed
       /\ conn.lockReleases = 1
       /\ conn.heartbeat # "active"
       /\ \A j \in (i + 1)..Len(emitLog) :
            /\ ~emitLog[j].ok
            /\ emitLog[j].closed
            /\ ~SameEvent(emitLog[i], emitLog[j])
       /\ Len(emitLog) <= i + 1
       /\ emitLog[i].detail # "tick" => i = Len(emitLog) /\ pc = "done"
  /\ Cardinality(DegradedEmits) <= Len(failures)
  /\ onFailureResult # "none" => failures # <<>>

\* The step hands an event to emit and the transport reports an error.
EmitErrorStep ==
  /\ ~conn.closed
  /\ Len(emitLog') = Len(emitLog) + 1
  /\ ~emitLog'[Len(emitLog')].ok

FirstThrowing ==
  CHOOSE k \in DOMAIN channels :
    channels[k].throws /\ \A j \in 1..(k - 1) : ~channels[j].throws

\* C25: when resolving a registry entry throws, the request fails with one
\* failure of stage channel-resolution and status 500 whose message is
\* formatError of what was thrown, answered with status 500 (the body
\* carrying that message, or the onFailure hook's replacement); only the
\* entries before the throwing one were resolved, authorize is not called,
\* and this is so whichever other entries resolve to the requested channel.
C25_ThrowingEntryShortCircuits ==
  (/\ pc # "idle" /\ payload.valid /\ payload.channel # ""
   /\ \E i \in DOMAIN channels : channels[i].throws)
    => /\ pc \in {"failRequest", "responded"}
       /\ Len(failures) = 1
       /\ failures[1].stage = "channel-resolution"
       /\ failures[1].status = 500
       /\ failures[1].message \in {formatError(error) : error \in Thrown}
       /\ response.status = 500
       /\ response.matchingRegistryKeys = <<>>
       /\ pc = "responded" =>
            /\ response.kind = "json"
            /\ response.error = ResolvedDetail
       /\ RegistryKeys(channelMatches) =
            MatchingKeys(SubSeq(channels, 1, FirstThrowing - 1),
                         payload.channel)
       /\ authorizeCalls = <<>>

\* The first entry throws and the second resolves to the requested channel:
\* the second was never resolved.
C25_Witness ==
  /\ pc = "responded"
  /\ Len(channels) = 2
  /\ channels[1].throws
  /\ ~channels[2].throws /\ channels[2].name = payload.channel
  /\ channelMatches = <<>>
  /\ response.status = 500
  /\ response.error = "boom"

\* reauthorize, or authorize re-run for the message in `value`, threw.
MessageCheckThrew ==
  shouldContinueStream = "throws" \/ messageAuthorizationResult.kind = "throws"

\* C26: when reauthorize or the authorize fallback throws for a message,
\* that message (the last chunk read) is not forwarded, the last failure
\* reported has stage reauthorization, the message's topic and formatError
\* of what was thrown, the pump reads nothing more, and once it has ended
\* exactly one health=degraded with the resolved message was emitted, last,
\* and the connection is closed.
C26_ThrowingCheckFailsClosed ==
  MessageCheckThrew =>
    /\ pc \in {"onFailure", "done"}
    /\ value = upstream[Len(upstream)]
    /\ Len(MessageLog) = Len(UpstreamMessages) - 1
    /\ failures # <<>>
    /\ failures[Len(failures)].stage = "reauthorization"
    /\ failures[Len(failures)].topics = {getMessageTopic(value)}
    /\ failures[Len(failures)].message \in
         {formatError(error) : error \in Thrown}
    /\ messageAuthorizationResult.kind = "throws" =>
         failures[Len(failures)].message =
           formatError(messageAuthorizationResult.error)
    /\ pc = "done" =>
         /\ DegradedAndClosed
         /\ emitLog[Len(emitLog)].detail = ResolvedDetail

\* authorize allowed the first message and threw for the second.
C26_Witness ==
  /\ pc = "done"
  /\ messageAuthorizationResult = ThrewResult("Error:boom")
  /\ Len(authorizeCalls) = 3
  /\ Len(MessageLog) = 1
  /\ MessageLog[1].ok
  /\ emitLog[Len(emitLog)].data = "degraded"
  /\ emitLog[Len(emitLog)].detail = "boom"
  /\ emitLog[Len(emitLog)].ok

\* The callbacks run for messages: authorize re-runs (every call after the
\* request-time one) and reauthorize calls.
MessageCallbackCalls == (Len(authorizeCalls) - 1) + Len(reauthorizeCalls)

\* C27: reauthorization on, the message in `value` (the last chunk read):
\* when it has no string topic the failure says so; else when its topic is
\* not a topic of the channel the failure names it as not configured; else
\* when its topic is not authorized for the session the failure names it as
\* not authorized.  In each case the failure has stage reauthorization, the
\* stream fails closed, and neither reauthorize nor authorize ran for that
\* message: the callbacks ran once for every message forwarded before it.
C27_TopicChecksInOrder ==
  (/\ shouldReauthorizeOnEachMessage
   /\ ~value.null
   /\ getMessageTopic(value) \notin authorizedTopics)
    => LET topic == getMessageTopic(value)
           last == failures[Len(failures)]
       IN  /\ pc \in {"onFailure", "done"}
           /\ value = upstream[Len(upstream)]
           /\ Len(failures) = 1
           /\ last.stage = "reauthorization"
           /\ IF topic = "<none>" THEN
                /\ last.message = "Realtime message is missing a valid topic"
                /\ last.topics = authorizedTopics
              ELSE IF topic \notin TopicsOf(payload.channel) THEN
                /\ last.message =
                     "Realtime message topic is not configured for channel: "
                       \o topic
                /\ last.topics = {topic}
              ELSE
                /\ last.message =
                     "Realtime message topic is not authorized for this connection: "
                       \o topic
                /\ last.topics = {topic}
           /\ MessageCallbackCalls = Len(MessageLog)
           /\ Len(MessageLog) = Len(UpstreamMessages) - 1
           /\ pc = "done" => DegradedAndClosed

\* A message passed the checks and was forwarded; the next one is on a topic
\* the channel does not have (and that is not authorized either).
C27_Witness ==
  /\ pc = "done"
  /\ shouldReauthorizeOnEachMessage
  /\ value = Envelope("bogus")
  /\ failures[1].message =
       "Realtime message topic is not configured for channel: bogus"
  /\ Len(MessageLog) = 1
  /\ MessageCallbackCalls = 1
  /\ emitLog[Len(emitLog)].data = "degraded"
  /\ emitLog[Len(emitLog)].ok

\* C28: reauthorization on and no reauthorize callback: once authorize, re-run
\* with the topic of the message in `value`, has settled, the message was
\* handed to emit if and only if the result is an explicit allow (true, or
\* allowedTopics holding the topic); for every other result the message is
\* not forwarded and the stream degrades and closes.
C28_ForwardedIffExplicitAllow ==
  (/\ shouldReauthorizeOnEachMessage
   /\ ~channelMatches[1].reauthorize
   /\ messageAuthorizationResult.kind # "none")
    => IF ExplicitAllow(messageAuthorizationResult, {getMessageTopic(value)})
       THEN /\ Len(MessageLog) = Len(UpstreamMessages)
            /\ MessageLog[Len(MessageLog)].data = getMessageTopic(value)
       ELSE /\ pc \in {"onFailure", "done"}
            /\ Len(MessageLog) = Len(UpstreamMessages) - 1
            /\ pc = "done" => DegradedAndClosed

\* The switch as the options give it: the channel entry's setting when it is
\* set, else the endpoint's when it is set, else off.
ReauthorizationOn ==
  LET own == channels[1].reauthorizeOnEachMessage
  IN  IF own # "unset" THEN own = "true"
      ELSE IF reauthorizeOnEachMessage # "unset"
        THEN reauthorizeOnEachMessage = "true"
      ELSE FALSE

\* C29: on an opened stream the decision equals the switch in every state of
\* the connection; when it is off no callback runs for any message and no
\* reauthorization failure is reported, when it is on every message handed
\* to emit had a callback run for it first.
C29_ReauthorizationSwitch ==
  response.kind = "stream" =>
    /\ shouldReauthorizeOnEachMessage = ReauthorizationOn
    /\ ~ReauthorizationOn =>
         /\ MessageCallbackCalls = 0
         /\ \A i \in DOMAIN failures : failures[i].stage # "reauthorization"
         /\ pc \notin {"reauthorize", "authorizeMessage"}
    /\ ReauthorizationOn =>
         /\ Len(MessageLog) <= MessageCallbackCalls
         /\ (pc = "read" /\ reads > 0 /\ ~value.null) =>
              MessageCallbackCalls = Len(UpstreamMessages)

\* The channel says false, the endpoint true: two messages were forwarded
\* and no callback ran for them.
C29_Witness ==
  /\ channels[1].reauthorizeOnEachMessage = "false"
  /\ reauthorizeOnEachMessage = "true"
  /\ pc = "read"
  /\ Len(MessageLog) = 2
  /\ MessageLog[2].ok
  /\ MessageCallbackCalls = 0

\* C30: on an opened stream the authorized topics are not empty and lie
\* within the requested topics, which lie within the channel's topics; the
\* requested topics are the payload's, or all of the channel's when the
\* payload names none; with an allowedTopics result the authorized topics
\* are exactly the requested ones that allowedTopics holds; the subscription
\* token is requested at most once, for exactly the authorized topics, and
\* never without an opened stream.
C30_AuthorizedWithinRequested ==
  /\ response.kind # "stream" => tokenRequests = <<>>
  /\ response.kind = "stream" =>
       /\ authorizedTopics # {}
       /\ authorizedTopics \subseteq requestedTopics
       /\ requestedTopics \subseteq TopicsOf(payload.channel)
       /\ requestedTopics =
            IF payload.topics = {} THEN TopicsOf(payload.channel)
            ELSE payload.topics
       /\ authorizationResult.kind = "allowed" =>
            authorizedTopics =
              requestedTopics \cap authorizationResult.allowedTopics
       /\ authorizationResult.kind = "true" =>
            authorizedTopics = requestedTopics
       /\ Len(tokenRequests) <= 1
       /\ \A i \in DOMAIN tokenRequests : tokenRequests[i] = authorizedTopics
       /\ pc \in Suspended \ {"onFailure"} => Len(tokenRequests) = 1

\* allowedTopics names a topic that was not requested: the token is
\* requested for the requested topic alone.
C30_Witness ==
  /\ payload.topics = {"message"}
  /\ authorizationResult.kind = "allowed"
  /\ authorizationResult.allowedTopics = {"message", "admin-message"}
  /\ tokenRequests = <<{"message"}>>
  /\ conn.reader

\* C31: at most one health=degraded event is handed to emit on a connection
\* and it is the last event of the connection: no message, no connected and
\* no liveness tick follows it; the pump has ended and the connection is
\* closed, its timer no longer active.
C31_DegradedIsLast ==
  /\ Cardinality(DegradedEmits) <= 1
  /\ \A i \in DegradedEmits :
       /\ i = Len(emitLog)
       /\ pc = "done"
       /\ conn.closed
       /\ conn.heartbeat # "active"

\* A degraded that ended a connection whose timer was running and had not
\* used up its ticks, after a forwarded message.
C31_Witness ==
  /\ DegradedEmits # {}
  /\ MessageEmits # {}
  /\ conn.heartbeat = "cleared"
  /\ ticks < MaxTicks
  /\ emitLog[Len(emitLog)].ok

\* The non-tick health=connected events handed to emit.
ConnectedEmits ==
  {i \in DOMAIN emitLog :
     /\ emitLog[i].event = "health"
     /\ emitLog[i].data = "connected"
     /\ emitLog[i].detail # "tick"}

\* C33: the first event handed to emit is health=connecting; the
\* subscription token is requested only after emit accepted it, and when
\* emit refused it nothing else is emitted, no token is requested, no
\* reader is taken and the lock is released once; health=connected is
\* emitted only with the reader acquired and after the token request; every
\* message and every liveness tick comes after an accepted connected.
C33_StartupOrdering ==
  /\ emitLog # <<>> =>
       /\ emitLog[1].event = "health"
       /\ emitLog[1].data = "connecting"
       /\ ~emitLog[1].closed
  /\ tokenRequests # <<>> => emitLog # <<>> /\ emitLog[1].ok
  /\ (emitLog # <<>> /\ ~emitLog[1].ok) =>
       /\ Len(emitLog) = 1
       /\ tokenRequests = <<>>
       /\ ~conn.reader
       /\ pc = "done"
       /\ conn.closed
       /\ conn.lockReleases = 1
  /\ \A i \in ConnectedEmits :
       /\ i = 2
       /\ conn.reader
       /\ Len(tokenRequests) = 1
  /\ \A i \in MessageEmits \cup TickEmits :
       /\ i > 2
       /\ 2 \in ConnectedEmits
       /\ emitLog[2].ok

\* Emit refused connecting on a connection that was still open.
C33_Witness ==
  /\ Len(emitLog) = 1
  /\ ~emitLog[1].ok
  /\ ~emitLog[1].closed
  /\ pc = "done"
  /\ conn.lockReleases = 1
  /\ tokenRequests = <<>>

\* C40: when reader.read() resolves with done on a connection that is not
\* closed, the step closes it (reader cancelled once, timer cleared, lock
\* released once) and hands nothing to emit, reports no failure and does
\* not run the onFailure hook; the last health event of the stream is a
\* connected that emit accepted, and no degraded was emitted.
C40_UpstreamEndIsQuiet ==
  [][(ReadDone /\ ~conn.closed) =>
       (/\ conn'.closed
        /\ conn'.cancelCalls = 1
        /\ conn'.lockReleases = 1
        /\ conn'.heartbeat # "active"
        /\ emitLog' = emitLog
        /\ failures' = failures
        /\ onFailureResult' = onFailureResult
        /\ DegradedEmits' = {}
        /\ HealthLog'[Len(HealthLog')].data = "connected"
        /\ HealthLog'[Len(HealthLog')].ok)]_vars

\* A stream that ended with the upstream after a forwarded message and a
\* liveness tick: closed, with no failure and no degraded event.
C40_Witness ==
  /\ pc = "done"
  /\ conn.closed
  /\ conn.reader
  /\ conn.cancelCalls = 1
  /\ conn.heartbeat = "cleared"
  /\ failures = <<>>
  /\ DegradedEmits = {}
  /\ MessageEmits # {}
  /\ TickEmits # {}
  /\ \A i \in DOMAIN emitLog : emitLog[i].ok

\* The transport event delivered last.
LastEvent == transportEvents[Len(transportEvents)]

\* A close the handler ignores: no Error, status below 400.
CleanClose(x) ==
  /\ x.kind = "close"
  /\ getDetail(x.event) = "undefined"
  /\ x.event.status < 400

\* C34: after a transport error event, and after a transport close event
\* that carries an Error or a status from 400 on, the health of the
\* connection is degraded, not ok, and carries a detail string.
C34_CloseAndErrorDegrade ==
  (/\ transportEvents # <<>>
   /\ LastEvent.kind \in {"close", "error"}
   /\ ~CleanClose(LastEvent)) =>
    /\ health.status = "degraded"
    /\ ~health.ok
    /\ health.detail # "undefined"

\* Positions of the events that set the health to connected: the transport
\* open, and a health value with status connected.
SetConnected ==
  {i \in DOMAIN transportEvents :
     \/ transportEvents[i].kind = "open"
     \/ /\ transportEvents[i].kind = "health"
        /\ transportEvents[i].value.status = "connected"}

\* C35: once the transport open handler or a health value has set the
\* health of the connection to connected, its status is never connecting
\* again.
C35_NeverBackToConnecting ==
  SetConnected # {} => health.status # "connecting"

\* Topics a descriptor asks for: its list, or every topic of the channel
\* when the list is omitted or empty.
TopicsAskedFor(d) ==
  IF d.topics = <<>>
  THEN Range(resolveChannel(d.channel, d.channelParams).topics)
  ELSE Range(d.topics)

\* A list in Array.prototype.sort() order without repetition.
SortedDistinct(topics) ==
  LET place(t) == CHOOSE k \in DOMAIN SortedTopics : SortedTopics[k] = t
  IN  \A a, b \in DOMAIN topics : a < b => place(topics[a]) < place(topics[b])

\* Descriptor i of the current list and descriptor j of the next one name
\* the same channel id, params and set of topics.
SameUpToTopicSpelling(i, j) ==
  /\ ChannelIdOf(subscriptions[i]) = ChannelIdOf(subscriptions'[j])
  /\ subscriptions[i].params = subscriptions'[j].params
  /\ TopicsAskedFor(subscriptions[i]) = TopicsAskedFor(subscriptions'[j])

\* C36: a reconciliation with the same endpoint and a descriptor that asks
\* for the same channel id, params and set of topics as the one its
\* connection was created with (its list permuted, with repetitions, or
\* left empty for all topics of the channel) keeps that connection: same
\* context, same signature, not stopped; the request body of every active
\* connection carries the sorted list without repetition of the topics
\* asked for, which is also the list in its signature.
C36_TopicSpellingNoChurn ==
  /\ [][(/\ Reconciled
         /\ applies' = applies + 1
         /\ endpoint' = endpoint
         /\ ~HasDuplicate(subscriptions'))
          => \A i \in DOMAIN subscriptions, j \in DOMAIN subscriptions' :
               SameUpToTopicSpelling(i, j) =>
                 LET id == ChannelIdOf(subscriptions[i])
                 IN  /\ activeConnections'[id] = activeConnections[id]
                     /\ connections'[activeConnections[id].context].stops = 0
                     /\ \A n \in DOMAIN lastApply'.ops :
                          connections'[lastApply'.ops[n].context].channelId
                            # id]_vars
  /\ [](\A id \in DOMAIN activeConnections :
          LET c == activeConnections[id]
          IN  /\ c.body.channel = id
              /\ SortedDistinct(c.body.topics)
              /\ c.signature[3] = c.body.topics
              /\ Reconciled =>
                   \E i \in DOMAIN subscriptions :
                     /\ ChannelIdOf(subscriptions[i]) = id
                     /\ Range(c.body.topics) =
                          TopicsAskedFor(subscriptions[i]))

\* The connection of the mount kept by an effect run whose only descriptor
\* is spelled with an empty topic list, the props being other than those
\* of the mount.
C36_Witness ==
  /\ Reconciled
  /\ applies = 1
  /\ ~lastApply.sameProps
  /\ lastApply.ops = <<>>
  /\ Len(subscriptions) = 1
  /\ subscriptions[1].topics = <<>>
  /\ Len(connections) = 1
  /\ Live = {1}
  /\ activeConnections["demo"].body.topics = <<"admin-message", "message">>

\* Structural equality of two params values: both undefined, or objects
\* holding the same key-value pairs.
SameParams(p, q) ==
  IF p = Undefined \/ q = Undefined THEN p = q ELSE Range(p) = Range(q)

\* C37: a reconciliation with the same endpoint and a descriptor that has
\* the channel id and topics its connection was created with, and params
\* holding the same key-value pairs, keeps that connection: same context,
\* same signature, not stopped.
C37_ParamsStructural ==
  [][(/\ Reconciled
      /\ applies' = applies + 1
      /\ endpoint' = endpoint
      /\ ~HasDuplicate(subscriptions'))
       => \A i \in DOMAIN subscriptions, j \in DOMAIN subscriptions' :
            (/\ ChannelIdOf(subscriptions[i]) = ChannelIdOf(subscriptions'[j])
             /\ subscriptions[i].topics = subscriptions'[j].topics
             /\ SameParams(subscriptions[i].params, subscriptions'[j].params))
              => LET id == ChannelIdOf(subscriptions[i])
                 IN  /\ activeConnections'[id].context =
                          activeConnections[id].context
                     /\ activeConnections'[id].signature =
                          activeConnections[id].signature
                     /\ connections'[activeConnections[id].context].stops
                          = 0]_vars

\* Connections with this channel id that are live once the first n
\* operations of the last reconciliation are done: those created before
\* operation n + 1 and not stopped before it.
LiveDuring(id, n) ==
  LET ops == lastApply.ops
      Created(c) == \E k \in DOMAIN ops :
                      ops[k].kind = "create" /\ ops[k].context = c
      Stopped(c) == \E k \in DOMAIN ops :
                      ops[k].kind = "stop" /\ ops[k].context = c
  IN  {c \in DOMAIN connections :
         /\ connections[c].channelId = id
         /\ Created(c) =>
              \E k \in 1..n : ops[k].kind = "create" /\ ops[k].context = c
         /\ IF Stopped(c)
            THEN \A k \in 1..n : ~(ops[k].kind = "stop" /\ ops[k].context = c)
            ELSE connections[c].stops = 0}

ChannelIds == {connections[c].channelId : c \in DOMAIN connections}

\* C38: each channel id has at most one connection that is not stopped,
\* between the reconciliations and after each stop and each creation of
\* the last one: a connection that is replaced is stopped before its
\* replacement is created; the contexts (each with its own transport) of
\* the active connections are pairwise distinct and a created connection
\* has a context no connection had before.
C38_OneLivePerChannel ==
  /\ \A id \in ChannelIds :
       Cardinality({c \in Live : connections[c].channelId = id}) <= 1
  /\ lifecycle = "mounted" =>
       \A id \in ChannelIds, n \in 0..Len(lastApply.ops) :
         Cardinality(LiveDuring(id, n)) <= 1
  /\ \A a, b \in DOMAIN activeConnections :
       a # b => activeConnections[a].context # activeConnections[b].context
  /\ \A m, n \in DOMAIN lastApply.ops :
       (/\ m < n
        /\ lastApply.ops[n].kind = "create")
         => lastApply.ops[m].context # lastApply.ops[n].context

\* A reconciliation that replaced the connection of a channel id: the old
\* one was stopped, then the new one created.
C38_Witness ==
  /\ Reconciled
  /\ applies = 1
  /\ lastApply.ops = <<Op("stop", 1), Op("create", 2)>>
  /\ connections[1].channelId = connections[2].channelId
  /\ Live = {2}

\* Positions of the delivered messages that parsed and carry the topic the
\* store was asked for.
Matching ==
  {i \in DOMAIN sseMessages :
     sseMessages[i].parses /\ sseMessages[i].topic = busTopic}

LastMatching == CHOOSE i \in Matching : \A j \in Matching : j <= i

\* C39: the value of the store is null while no message that parsed and
\* carries the requested topic was delivered; afterwards it is the mapped
\* value (the envelope itself without a map option) of the last such
\* message, whatever was delivered after it: messages of other topics and
\* texts that do not parse leave it as it was.
C39_LatestOfTopic ==
  topicJson =
    IF Matching = {} THEN NullMessage
    ELSE LET m == sseMessages[LastMatching]
         IN  IF mapOption THEN [output |-> m.data]
             ELSE [topic |-> m.topic, data |-> m.data]

\* A matching message, then one of another topic and a text that does not
\* parse: the store still holds the first.
C39_Witness ==
  /\ Len(sseMessages) = 3
  /\ Matching = {1}
  /\ sseMessages[2].parses
  /\ ~sseMessages[3].parses
  /\ mapOption
  /\ topicJson = [output |-> sseMessages[1].data]

\* An opened connection on which the client went away or the upstream ended
\* (the connection is closed), emit reported an error, or a failure of the
\* stream or of a message check was detected.
TeardownTriggered ==
  /\ response.kind = "stream"
  /\ \/ conn.closed
     \/ EmitErrors # {}
     \/ \E i \in DOMAIN failures :
          failures[i].stage \in {"stream", "reauthorization"}

\* C32: when every awaited call of the pump settles, a connection on which
\* a teardown cause occurred is eventually closed with its lock released
\* exactly once and its pump task ended.
C32_TeardownCompletes ==
  TeardownTriggered ~>
    (pc = "done" /\ conn.closed /\ conn.lockReleases = 1)

\* A reauthorization failure whose onFailure hook was awaited, after which
\* the connection was closed.
C32_Witness ==
  /\ pc = "done"
  /\ conn.closed
  /\ conn.lockReleases = 1
  /\ onFailureResult # "none"
  /\ failures # <<>>
  /\ failures[Len(failures)].stage = "reauthorization"
  /\ emitLog[Len(emitLog)].data = "degraded"
  /\ emitLog[Len(emitLog)].ok
====
